---- MODULE Spec2Model ----
(***************************************************************************)
(* A model of reporover's repository search and discovery code:            *)
(*   src/src/reporover/search.py   (get_all_repositories,                  *)
(*       get_all_files_recursive, check_patterns_match,                    *)
(*       matches_repo_pattern, search_repositories_for_files)              *)
(*   src/src/reporover/discover.py (_collect_files_recursive and callers)  *)
(*                                                                         *)
(* Strings are modelled as sequences of one-character strings, so that     *)
(* lower(), substring containment and fnmatch are computed, not assumed.   *)
(***************************************************************************)
EXTENDS Integers, Sequences, FiniteSets, TLC

VARIABLES
    \* ---- get_all_repositories (search.py 14-59) ----
    organization_name,   \* "acme" or "None" (global search)
    listing,             \* the provider: one response per page 1..Len(listing)
    max_repos,           \* the cap argument
    page,                \* the page counter
    all_repositories,    \* the accumulated records
    listing_requests,    \* history: the page numbers requested, in order
    gar_pc               \* "loop" | "returned" | "raised"

VARIABLES
    \* ---- the matchers applied to drawn inputs (search.py 172-274) ----
    fn,                  \* which function is applied, "none" when idle
    repo_name,           \* matches_repo_pattern: the name
    fragment,            \* matches_repo_pattern: the fragment
    file_names,          \* check_patterns_match: the file names
    file_patterns,       \* check_patterns_match: the patterns
    match_all,           \* check_patterns_match: the policy
    fn_pc,               \* "call" | "done"
    fn_result            \* the value returned

VARIABLES
    \* ---- one directory walk of one repository ----
    walker,              \* "collect" (discover.py) | "get_all" (search.py) | "none"
    tree,                \* the repository's tree
    faults,              \* how the provider answers for each directory
    max_depth,           \* the depth bound the caller configured
    all_files,           \* the walk's result
    walk_requests,       \* history: the directories listed, in order
    walk_calls,          \* history: <<path, current_depth>> of each call of the walker
    walk_raised,         \* the walk ended by raising
    walk_pc              \* "call" | "done"

VARIABLES
    \* ---- search_repositories_for_files (search.py 277-410) ----
    naming,              \* the provider: which names the repositories bear
    fault,               \* the provider: the directory listing that fails, if any
    max_matching_repos,  \* the cap on matched repositories
    matching_repos,      \* the records that pass the name filter
    found_repositories,  \* the matched repositories, with their matched files
    repo_i,              \* the position of the loop over matching_repos
    dir_requests,        \* history: <<record, directory>> of each listing request
    outcome,             \* "none" | "SUCCESS" | "FAILURE"
    pc                   \* "idle" | "retrieving" | "content_filtering" | "summary" | "done"

VARIABLES
    \* ---- discover.py: the functions applied to drawn inputs ----
    doc_fn,              \* which function is applied, "none" when idle
    args,                \* the arguments of the call, as passed
    repos_list,          \* the repositories handed to _save_results_to_json
    search_query,        \* the query string built by _build_search_query
    disk,                \* the file at the save path
    writable,            \* the save path can be opened for writing
    save_result,         \* what _save_results_to_json returned
    loaded_data,         \* what load_results_from_json returned
    extracted_config,    \* what extract_configuration_from_data returned
    doc_pc               \* "call" | "saved" | "loaded" | "done"

VARIABLES
    \* ---- search_repositories (discover.py 14-160) ----
    MAX_DEPTH,           \* module global
    MAX_DISPLAY,         \* module global
    MAX_FILTER,          \* module global
    max_filter,          \* the local max_filter of the call
    max_display,         \* the local max_display of the call
    paginated_list,      \* the provider: the `repositories` the search answers
    configuration_data,  \* the dict built for saving
    filtered_repositories, \* the repositories the file filter kept
    repo_count,          \* the counter of the filter loop
    walked,              \* history: the repositories the filter walked, in order
    table,               \* the rows added to the table of the call
    console,             \* the summary lines printed by the presenter
    presented,           \* the presenter of the call has returned
    written,             \* history: the documents written during the call
    raised,              \* history: what the provider raised during the call
    status,              \* "none" | "SUCCESS" | "FAILURE"
    d_pc,                \* "call" | "searching" | "filtering" | "displaying"
                         \* | "saving" | "returned"
    pending_calls        \* the calls the process still makes, in order

VARIABLES
    \* ---- commit_files_to_repo (repository.py 18-85) ----
    commit_files,          \* the files argument: paths as sequences of components
    file_contents,         \* the directory: the bytes of each file, or "unreadable"
    destination_directory, \* the destination_directory argument, as components
    commit_message,        \* the commit_message argument
    get_responses,         \* the provider: the answer to the GET for each file
    put_responses,         \* the provider: the answer to the PUT for each file
    file_i,                \* the position of the loop over files
    http_requests,         \* history: the requests sent, in order
    reports,               \* history: what was printed, in order
    commit_status,         \* "none" | "WORKING" | "FAILURE"
    commit_pc              \* "idle" | "loop" | "returned"

garVars == <<organization_name, listing, max_repos, page, all_repositories,
             listing_requests, gar_pc>>

fnVars == <<fn, repo_name, fragment, file_names, file_patterns, match_all,
            fn_pc, fn_result>>

walkVars == <<walker, tree, faults, max_depth, all_files, walk_requests,
              walk_calls, walk_raised, walk_pc>>

runVars == <<naming, fault, max_matching_repos, matching_repos,
             found_repositories, repo_i, dir_requests, outcome, pc>>

docVars == <<doc_fn, args, repos_list, search_query, disk, writable, save_result,
             loaded_data, extracted_config, doc_pc>>

discVars == <<MAX_DEPTH, MAX_DISPLAY, MAX_FILTER, max_filter, max_display,
              paginated_list, configuration_data, filtered_repositories,
              repo_count, walked, table, console, presented, written, raised,
              status, d_pc, pending_calls>>

discoverVars == <<docVars, discVars>>

commitVars == <<commit_files, file_contents, destination_directory,
                commit_message, get_responses, put_responses, file_i,
                http_requests, reports, commit_status, commit_pc>>

vars == <<garVars, fnVars, walkVars, runVars, discoverVars, commitVars>>

----------------------------------------------------------------------------
(* The parts of the state a specification leaves idle *)

IdleGar ==
    /\ organization_name = "None"
    /\ listing = <<>>
    /\ max_repos = 0
    /\ page = 1
    /\ all_repositories = <<>>
    /\ listing_requests = <<>>
    /\ gar_pc = "idle"

IdleFn ==
    /\ fn = "none"
    /\ repo_name = <<>>
    /\ fragment = <<>>
    /\ file_names = <<>>
    /\ file_patterns = <<>>
    /\ match_all = FALSE
    /\ fn_pc = "done"
    /\ fn_result = FALSE

IdleRun ==
    /\ naming = 0
    /\ fault = [rec |-> <<1, 1>>, dir |-> <<>>, kind |-> "ok"]
    /\ max_matching_repos = 0
    /\ matching_repos = <<>>
    /\ found_repositories = <<>>
    /\ repo_i = 1
    /\ dir_requests = <<>>
    /\ outcome = "none"
    /\ pc = "idle"

IdleWalk ==
    /\ walker = "none"
    /\ tree = "flat"
    /\ faults = <<>>
    /\ max_depth = 0
    /\ all_files = <<>>
    /\ walk_requests = <<>>
    /\ walk_calls = <<>>
    /\ walk_raised = FALSE
    /\ walk_pc = "done"

\* Optional[...] values: None, or the value
None == <<>>
Some(v) == <<v>>

\* a call that passes None for every argument
NoArgs ==
    [language |-> None, stars |-> None, forks |-> None,
     created_after |-> None, updated_after |-> None, files |-> None,
     topics |-> None, max_depth |-> None, max_filter |-> None,
     max_display |-> None, save_file |-> None]

\* no file at the save path
MissingFile == [kind |-> "missing", content |-> <<"null", <<>>>>]

IdleDoc ==
    /\ doc_fn = "none"
    /\ args = NoArgs
    /\ repos_list = <<>>
    /\ search_query = <<>>
    /\ disk = MissingFile
    /\ writable = TRUE
    /\ save_result = FALSE
    /\ loaded_data = None
    /\ extracted_config = None
    /\ doc_pc = "done"

\* the search answered without a repository
NoRepositories == [items |-> <<>>, totalCount |-> 0, raises |-> "none", at |-> 0]

IdleDisc ==
    /\ MAX_DEPTH = 0
    /\ MAX_DISPLAY = 0
    /\ MAX_FILTER = 0
    /\ max_filter = 0
    /\ max_display = 0
    /\ paginated_list = NoRepositories
    /\ configuration_data = <<>>
    /\ filtered_repositories = <<>>
    /\ repo_count = 0
    /\ walked = <<>>
    /\ table = <<>>
    /\ console = <<>>
    /\ presented = FALSE
    /\ written = <<>>
    /\ raised = "none"
    /\ status = "none"
    /\ d_pc = "idle"
    /\ pending_calls = <<>>

IdleDiscover ==
    /\ IdleDoc
    /\ IdleDisc

IdleCommit ==
    /\ commit_files = <<>>
    /\ file_contents = <<>>
    /\ destination_directory = <<>>
    /\ commit_message = <<>>
    /\ get_responses = <<>>
    /\ put_responses = <<>>
    /\ file_i = 0
    /\ http_requests = <<>>
    /\ reports = <<>>
    /\ commit_status = "none"
    /\ commit_pc = "idle"

----------------------------------------------------------------------------
(* Bounds of the model *)

MaxPages == 3
MaxPageLen == 2
MaxCap == 7
MaxNameLen == 3
MaxFragLen == 3
MaxFiles == 2
MaxPatterns == 2
MaxDepthArg == 3
MaxTopics == 2

----------------------------------------------------------------------------
(* Program constants *)

\* StatusCode.WORKING.value, the only status the code accepts as success
WORKING == 200
\* a non-success status a provider may answer with
NOT_FOUND == 404

----------------------------------------------------------------------------
(* Strings: sequences of one-character strings *)

\* str.lower() on one character
LowerChar(c) == IF c = "A" THEN "a" ELSE IF c = "B" THEN "b" ELSE c

\* str.lower()
Lower(s) == [i \in 1..Len(s) |-> LowerChar(s[i])]

\* Python's `needle in hay` on strings: hay has a slice equal to needle
Contains(needle, hay) ==
    \E i \in 0..(Len(hay) - Len(needle)) :
        SubSeq(hay, i + 1, i + Len(needle)) = needle

\* fnmatch.fnmatch(name, pat) on a POSIX host (normcase is the identity there):
\* the whole name against the pattern, '*' any run of characters, '?' any one
\* character, every other character itself.  Bracket classes are left out:
\* no pattern of the model holds a '['.
RECURSIVE FnMatch(_, _)
FnMatch(name, pat) ==
    IF pat = <<>> THEN name = <<>>
    ELSE IF Head(pat) = "*"
         THEN FnMatch(name, Tail(pat))
              \/ (name # <<>> /\ FnMatch(Tail(name), pat))
    ELSE IF Head(pat) = "?"
         THEN name # <<>> /\ FnMatch(Tail(name), Tail(pat))
    ELSE name # <<>> /\ Head(name) = Head(pat)
         /\ FnMatch(Tail(name), Tail(pat))

\* All strings over alphabet of length at most n
StringsUpTo(alphabet, n) == UNION {[1..k -> alphabet] : k \in 0..n}

\* All lists over S of length at most n
ListsUpTo(S, n) == UNION {[1..k -> S] : k \in 0..n}

\* The elements of a list
Range(s) == {s[i] : i \in 1..Len(s)}

----------------------------------------------------------------------------
(* matches_repo_pattern (search.py 266-274) *)

\* search.py 271: the fragment holds a wildcard
HasWildcard(repo_name_fragment) ==
    "*" \in Range(repo_name_fragment) \/ "?" \in Range(repo_name_fragment)

\* matches_repo_pattern changed the way a name filter that drops nothing
\* would change it
matches_repo_pattern_always(name, repo_name_fragment) == TRUE

\* the substring tier tried before the wildcard tier
matches_repo_pattern_substring_first(name, repo_name_fragment) ==
    IF repo_name_fragment = <<>> \/ repo_name_fragment = <<"*">> THEN TRUE
    ELSE IF Contains(Lower(repo_name_fragment), Lower(name)) THEN TRUE
    ELSE HasWildcard(repo_name_fragment)
         /\ FnMatch(Lower(name), Lower(repo_name_fragment))

\* search.py 268-274
matches_repo_pattern(name, repo_name_fragment) ==
    IF repo_name_fragment = <<>> \/ repo_name_fragment = <<"*">> THEN TRUE
    ELSE IF HasWildcard(repo_name_fragment)
         THEN FnMatch(Lower(name), Lower(repo_name_fragment))
    ELSE Contains(Lower(repo_name_fragment), Lower(name))

----------------------------------------------------------------------------
(* check_patterns_match (search.py 172-218) *)

\* search.py 187-189 and 209-211: one name against one pattern
NameMatchesPattern(name, pattern) ==
    \/ Contains(Lower(pattern), Lower(name))
    \/ name = pattern
    \/ FnMatch(Lower(name), Lower(pattern))

\* search.py 184-190 and 206-212: the list comprehension, in file order
PatternMatches(names, pattern) ==
    SelectSeq(names, LAMBDA name : NameMatchesPattern(name, pattern))

\* a match_all loop that skips a pattern without a match instead of stopping
RECURSIVE MatchAllLoopPartial(_, _, _, _)
MatchAllLoopPartial(names, patterns, i, matched_files) ==
    IF i > Len(patterns)
    THEN [all_patterns_found |-> TRUE, matched_files |-> matched_files]
    ELSE MatchAllLoopPartial(names, patterns, i + 1,
                             matched_files \o PatternMatches(names, patterns[i]))

\* search.py 183-200: match_all, from pattern i on; a pattern with no match
\* breaks the loop with all_patterns_found false
RECURSIVE MatchAllLoop(_, _, _, _)
MatchAllLoop(names, patterns, i, matched_files) ==
    IF i > Len(patterns)
    THEN [all_patterns_found |-> TRUE, matched_files |-> matched_files]
    ELSE LET pattern_matches == PatternMatches(names, patterns[i])
         IN  IF pattern_matches # <<>>
             THEN MatchAllLoop(names, patterns, i + 1,
                               matched_files \o pattern_matches)
             ELSE [all_patterns_found |-> FALSE, matched_files |-> matched_files]

\* search.py 205-213: match any, from pattern i on
RECURSIVE MatchAnyLoop(_, _, _, _)
MatchAnyLoop(names, patterns, i, matched_files) ==
    IF i > Len(patterns) THEN matched_files
    ELSE MatchAnyLoop(names, patterns, i + 1,
                      matched_files \o PatternMatches(names, patterns[i]))

\* the accumulated list returned as it is, duplicates kept
ListOfSetNot(matched_files) == {matched_files}

\* search.py 218: list(set(matched_files)); the order of a set's elements is
\* not defined, so every duplicate-free ordering is a possible result
ListOfSet(matched_files) ==
    LET S == Range(matched_files)
    IN  {s \in [1..Cardinality(S) -> S] : Range(s) = S}

\* search.py 179-218: the lists check_patterns_match may return
check_patterns_match(names, patterns, all) ==
    IF all
    THEN LET r == MatchAllLoop(names, patterns, 1, <<>>)
         IN  IF ~r.all_patterns_found THEN {<<>>}
             ELSE ListOfSet(r.matched_files)
    ELSE ListOfSet(MatchAnyLoop(names, patterns, 1, <<>>))

----------------------------------------------------------------------------
(* Repository trees and the provider's directory listings *)

\* search.py 122, 126: f"{path}/{item['name']}" if path else item["name"]
JoinPath(path, name) == IF path = <<>> THEN name ELSE path \o <<"/">> \o name

\* one entry of a directory listing, as the contents endpoint describes it
Entry(parent, name, type) ==
    [name |-> name, type |-> type, path |-> JoinPath(parent, name)]

\* The listing of directory `path` in a tree.  "deep" nests directories four
\* levels below the root; "flat" holds one file.
TreeListing(t, path) ==
    IF t = "flat"
    THEN IF path = <<>> THEN <<Entry(<<>>, <<"R">>, "file")>> ELSE <<>>
    ELSE CASE path = <<>> ->
                  <<Entry(path, <<"R">>, "file"), Entry(path, <<"s">>, "dir"),
                    Entry(path, <<"l">>, "symlink"), Entry(path, <<"d">>, "dir")>>
           [] path = <<"s">> ->
                  <<Entry(path, <<"m">>, "file"), Entry(path, <<"p">>, "dir")>>
           [] path = <<"s", "/", "p">> ->
                  <<Entry(path, <<"q">>, "dir"), Entry(path, <<"x">>, "file")>>
           [] path = <<"s", "/", "p", "/", "q">> ->
                  <<Entry(path, <<"y">>, "file"), Entry(path, <<"r">>, "dir")>>
           [] path = <<"s", "/", "p", "/", "q", "/", "r">> ->
                  <<Entry(path, <<"z">>, "file")>>
           [] path = <<"d">> ->
                  <<Entry(path, <<"i">>, "file")>>
           [] OTHER -> <<>>

\* the directories of a tree
Dirs(t) ==
    IF t = "flat" THEN {<<>>}
    ELSE {<<>>, <<"s">>, <<"s", "/", "p">>, <<"s", "/", "p", "/", "q">>,
          <<"s", "/", "p", "/", "q", "/", "r">>, <<"d">>}

\* How the provider may answer a directory listing: "ok" status 200 and a
\* list, "bad" a non-success status, "notlist" status 200 and a JSON object,
\* "raise" a raised request error
ContentKinds == {"ok", "bad", "notlist", "raise"}

\* the response of requests.get(contents_url) for a directory
ContentsResponse(t, f, path) ==
    LET k == IF path \in DOMAIN f THEN f[path] ELSE "bad"
    IN  [raises |-> k = "raise",
         status_code |-> IF k = "bad" THEN NOT_FOUND ELSE WORKING,
         is_list |-> k = "ok",
         items |-> IF k = "ok" THEN TreeListing(t, path) ELSE <<>>]

----------------------------------------------------------------------------
(* get_all_files_recursive (search.py 100-133) *)

\* The value is [all_files, requests, raised]: the file paths returned, the
\* directories listed, and whether the call ended by raising (then all_files
\* is what the frames below had accumulated, which the exception discards).
RECURSIVE get_all_files_recursive(_, _, _)
RECURSIVE GafItems(_, _, _, _, _, _)

\* search.py 120-132: the loop over the listing, from item i on
GafItems(t, f, path, contents, i, acc) ==
    IF i > Len(contents) THEN acc
    ELSE LET item == contents[i]
         IN  IF item.type = "file"
             THEN GafItems(t, f, path, contents, i + 1,
                           [acc EXCEPT !.all_files =
                                Append(@, JoinPath(path, item.name))])
             ELSE IF item.type = "dir"
             THEN LET sub == get_all_files_recursive(
                                 t, f, JoinPath(path, item.name))
                  IN  IF sub.raised
                      THEN [all_files |-> acc.all_files,
                            requests |-> acc.requests \o sub.requests,
                            raised |-> TRUE]
                      ELSE GafItems(t, f, path, contents, i + 1,
                               [all_files |-> acc.all_files \o sub.all_files,
                                requests |-> acc.requests \o sub.requests,
                                raised |-> FALSE])
             ELSE GafItems(t, f, path, contents, i + 1, acc)

\* search.py 108-133.  A raised request error leaves the function (113); a
\* non-success status returns the empty list (114-118); a JSON object where a
\* list is expected raises at item["type"] (120-121), item being a key.
get_all_files_recursive(t, f, path) ==
    LET resp == ContentsResponse(t, f, path)
    IN  IF resp.raises
        THEN [all_files |-> <<>>, requests |-> <<path>>, raised |-> TRUE]
        ELSE IF resp.status_code # WORKING
        THEN [all_files |-> <<>>, requests |-> <<path>>, raised |-> FALSE]
        ELSE IF ~resp.is_list
        THEN [all_files |-> <<>>, requests |-> <<path>>, raised |-> TRUE]
        ELSE GafItems(t, f, path, resp.items, 1,
                      [all_files |-> <<>>, requests |-> <<path>>,
                       raised |-> FALSE])

----------------------------------------------------------------------------
(* _collect_files_recursive (discover.py 287-321) *)

\* an expansion guard that stops one level early
ExpandGuardEarly(current_depth, depth) == current_depth + 1 < depth

\* an expansion guard that lets one level more through
ExpandGuardLate(current_depth, depth) == current_depth <= depth

\* discover.py 311: if current_depth < max_depth
ExpandGuard(current_depth, depth) == current_depth < depth

\* discover.py 296: if current_depth > max_depth
EntryGuard(current_depth, depth) == current_depth > depth

\* The value is [all_files, requests, calls]: the list the calls append to,
\* the directories listed, and the path and depth each call was made with.
RECURSIVE _collect_files_recursive(_, _, _, _, _, _)
RECURSIVE CfrItems(_, _, _, _, _, _, _)

\* discover.py 306-319: the loop over the listing, from item i on
CfrItems(t, f, contents, i, depth, current_depth, acc) ==
    IF i > Len(contents) THEN acc
    ELSE LET item == contents[i]
             emitted == [acc EXCEPT !.all_files = Append(@, item)]
         IN  IF item.type = "file"
             THEN CfrItems(t, f, contents, i + 1, depth, current_depth, emitted)
             ELSE IF item.type = "dir"
             THEN CfrItems(t, f, contents, i + 1, depth, current_depth,
                      IF ExpandGuard(current_depth, depth)
                      THEN _collect_files_recursive(
                               t, f, item.path, depth, current_depth + 1, emitted)
                      ELSE emitted)
             ELSE CfrItems(t, f, contents, i + 1, depth, current_depth, acc)

\* discover.py 296-321: every failure returns to the caller without raising
_collect_files_recursive(t, f, path, depth, current_depth, acc) ==
    LET called == [acc EXCEPT !.calls = Append(@, <<path, current_depth>>)]
    IN  IF EntryGuard(current_depth, depth) THEN called
    ELSE LET resp == ContentsResponse(t, f, path)
             asked == [called EXCEPT !.requests = Append(@, path)]
         IN  IF resp.raises THEN asked
             ELSE IF resp.status_code # WORKING THEN asked
             ELSE IF ~resp.is_list THEN asked
             ELSE CfrItems(t, f, resp.items, 1, depth, current_depth, asked)

\* discover.py 273-284: _get_repository_files
_get_repository_files(t, f, depth) ==
    _collect_files_recursive(t, f, <<>>, depth, 0,
                            [all_files |-> <<>>, requests |-> <<>>,
                             calls |-> <<>>])

----------------------------------------------------------------------------
(* Specification of one directory walk *)

\* the depth bounds a caller may pass
DepthArgs == {-1} \cup (0..MaxDepthArg)

InitWalk ==
    /\ IdleGar
    /\ IdleFn
    /\ IdleRun
    /\ IdleDiscover
    /\ IdleCommit
    /\ walker \in {"collect", "get_all"}
    /\ tree \in {"deep", "flat"}
    /\ faults \in [Dirs(tree) -> ContentKinds]
    /\ max_depth \in DepthArgs
    /\ all_files = <<>>
    /\ walk_requests = <<>>
    /\ walk_calls = <<>>
    /\ walk_raised = FALSE
    /\ walk_pc = "call"

\* discover.py 263: repo_files = _get_repository_files(repository, max_depth, headers)
WalkCollect ==
    /\ walker = "collect"
    /\ walk_pc = "call"
    /\ LET r == _get_repository_files(tree, faults, max_depth)
       IN  /\ all_files' = r.all_files
           /\ walk_requests' = r.requests
           /\ walk_calls' = r.calls
    /\ walk_pc' = "done"
    /\ UNCHANGED <<walker, tree, faults, max_depth, walk_raised>>
    /\ UNCHANGED <<garVars, fnVars, runVars, discoverVars, commitVars>>

\* search.py 353-355: all_files = get_all_files_recursive(owner, name, headers, progress)
WalkGetAll ==
    /\ walker = "get_all"
    /\ walk_pc = "call"
    /\ LET r == get_all_files_recursive(tree, faults, <<>>)
       IN  /\ all_files' = IF r.raised THEN <<>> ELSE r.all_files
           /\ walk_requests' = r.requests
           /\ walk_raised' = r.raised
    /\ walk_pc' = "done"
    /\ UNCHANGED <<walker, tree, faults, max_depth, walk_calls>>
    /\ UNCHANGED <<garVars, fnVars, runVars, discoverVars, commitVars>>

NextWalk == WalkCollect \/ WalkGetAll

SpecWalk == InitWalk /\ [][NextWalk]_vars

----------------------------------------------------------------------------
(* The provider's repository listing *)

\* The records on page p when it holds n records: record <<p, i>> is the i-th
\* record of page p, so provider order is page order, then position.
PageRecords(p, n) == [i \in 1..n |-> <<p, i>>]

\* What the provider answers for page p: a raised network error, or a status
\* code and n records.  Pages after the last one of the listing are empty.
PageResponse(l, p) ==
    IF p \in 1..Len(l) THEN l[p]
    ELSE [raises |-> FALSE, status_code |-> WORKING, n |-> 0]

\* repos_response.json(): the organization endpoint answers with a bare
\* array, the search endpoint with an {items: [...]} envelope.
ResponseJson(org, p, n) ==
    IF org # "None" THEN [shape |-> "array", array |-> PageRecords(p, n)]
    ELSE [shape |-> "envelope", items |-> PageRecords(p, n)]

\* search.py 40-44: repositories = response_data | response_data.get("items", [])
Repositories(org, response_data) ==
    IF org # "None" THEN response_data.array
    ELSE IF "items" \in DOMAIN response_data THEN response_data.items ELSE <<>>

\* a cap test that lets one record more through
CapReachedLate(cap, n) == cap # 0 /\ n > cap

\* search.py 52: `max_repos and len(all_repositories) >= max_repos`
CapReached(cap, n) == cap # 0 /\ n >= cap

\* a page counter that does not advance
NextPageStay(p) == p

\* a page counter that skips a page
NextPageSkip(p) == p + 2

\* search.py 58: page += 1
NextPage(p) == p + 1

\* a cap that stops the loop without cutting the overflow
TruncateNot(s, cap) == s

\* search.py 53: all_repositories[:max_repos]
Truncate(s, cap) == SubSeq(s, 1, IF cap < Len(s) THEN cap ELSE Len(s))

----------------------------------------------------------------------------
(* get_all_repositories: one loop iteration per action *)

\* search.py 31: requests.get raises (a network error); the exception leaves
\* get_all_repositories.
FetchRaises ==
    /\ gar_pc = "loop"
    /\ PageResponse(listing, page).raises
    /\ listing_requests' = Append(listing_requests, page)
    /\ gar_pc' = "raised"
    /\ UNCHANGED <<organization_name, listing, max_repos, page, all_repositories>>
    /\ UNCHANGED <<fnVars, walkVars, runVars, discoverVars, commitVars>>

\* search.py 35-38: a non-success status breaks the loop
FetchFails ==
    /\ gar_pc = "loop"
    /\ ~PageResponse(listing, page).raises
    /\ PageResponse(listing, page).status_code # WORKING
    /\ listing_requests' = Append(listing_requests, page)
    /\ gar_pc' = "returned"
    /\ UNCHANGED <<organization_name, listing, max_repos, page, all_repositories>>
    /\ UNCHANGED <<fnVars, walkVars, runVars, discoverVars, commitVars>>

\* search.py 39-58: a page that came back with status 200
FetchPage ==
    /\ gar_pc = "loop"
    /\ ~PageResponse(listing, page).raises
    /\ PageResponse(listing, page).status_code = WORKING
    /\ listing_requests' = Append(listing_requests, page)
    /\ LET resp == PageResponse(listing, page)
           repositories ==
               Repositories(organization_name,
                            ResponseJson(organization_name, page, resp.n))
           extended == all_repositories \o repositories
       IN  IF repositories = <<>>
           THEN /\ gar_pc' = "returned"
                /\ UNCHANGED <<page, all_repositories>>
           ELSE IF CapReached(max_repos, Len(extended))
           THEN /\ all_repositories' = Truncate(extended, max_repos)
                /\ gar_pc' = "returned"
                /\ UNCHANGED page
           ELSE /\ all_repositories' = extended
                /\ page' = NextPage(page)
                /\ UNCHANGED gar_pc
    /\ UNCHANGED <<organization_name, listing, max_repos>>
    /\ UNCHANGED <<fnVars, walkVars, runVars, discoverVars, commitVars>>

----------------------------------------------------------------------------
(* Specification of get_all_repositories alone *)

\* The pages a provider may answer with: 0..MaxPageLen records with status
\* 200, a non-success status, or a raised network error
Pages ==
    [raises : {FALSE}, status_code : {WORKING}, n : 0..MaxPageLen]
    \cup {[raises |-> FALSE, status_code |-> NOT_FOUND, n |-> 0],
          [raises |-> TRUE, status_code |-> 0, n |-> 0]}

Listings == ListsUpTo(Pages, MaxPages)

InitGar ==
    /\ organization_name \in {"acme", "None"}
    /\ listing \in Listings
    /\ max_repos \in 0..MaxCap
    /\ page = 1
    /\ all_repositories = <<>>
    /\ listing_requests = <<>>
    /\ gar_pc = "loop"
    /\ IdleFn
    /\ IdleWalk
    /\ IdleRun
    /\ IdleDiscover
    /\ IdleCommit

NextGar == FetchRaises \/ FetchFails \/ FetchPage

SpecGar == InitGar /\ [][NextGar]_vars

\* get_all_repositories runs in one thread and every request it sends is
\* answered or raises: a loop that can take a step takes it
SpecGarFair == SpecGar /\ WF_vars(NextGar)

----------------------------------------------------------------------------
(* search_repositories_for_files (search.py 277-410) *)

\* repo["name"] of a record: the provider's naming decides it
RepoName(nm, rec) ==
    IF (rec[1] + rec[2] + nm) % 2 = 0
    THEN IF rec[1] = 1 THEN <<"a", "b">> ELSE <<"A", "b">>
    ELSE <<"b">>

\* repo["owner"]["login"] of a record
OwnerLogin(rec) == "octo"

\* the tree of a record's repository
RepoTree(rec) == IF rec[2] = 1 THEN "deep" ELSE "flat"

\* how the provider answers for the directories of a record's repository
RepoFaults(flt, rec) ==
    [d \in Dirs(RepoTree(rec)) |->
        IF flt.rec = rec /\ flt.dir = d THEN flt.kind ELSE "ok"]

\* search.py 344-348: repo_owner
RepoOwner(org, rec) == IF org = "None" THEN OwnerLogin(rec) ELSE org

\* MatchCapReached changed the way an off-by-one would change it
MatchCapReachedLate(cap, n) == cap # 0 /\ n > cap

\* search.py 376-379: `max_matching_repos and len(found_repositories) >= max_matching_repos`
MatchCapReached(cap, n) == cap # 0 /\ n >= cap

\* AppendMatch changed the way a missing `if matched_files:` would change it
AppendMatchAlways(found, repo_info, matched_files) == Append(found, repo_info)

\* search.py 363-371: `if matched_files: found_repositories.append({...})`
AppendMatch(found, repo_info, matched_files) ==
    IF matched_files # <<>> THEN Append(found, repo_info) ELSE found

\* search.py 399-404: the request error raised inside get_all_repositories is
\* caught by search_repositories_for_files
RetrievalRaised ==
    /\ pc = "retrieving"
    /\ gar_pc = "raised"
    /\ outcome' = "FAILURE"
    /\ pc' = "done"
    /\ UNCHANGED <<naming, fault, max_matching_repos, matching_repos,
                   found_repositories, repo_i, dir_requests>>
    /\ UNCHANGED <<garVars, fnVars, walkVars, discoverVars, commitVars>>

\* search.py 314-338: get_all_repositories has returned; the name filter
FilterByName ==
    /\ pc = "retrieving"
    /\ gar_pc = "returned"
    /\ LET matching ==
               SelectSeq(all_repositories,
                         LAMBDA repo :
                             matches_repo_pattern(RepoName(naming, repo), fragment))
       IN  /\ matching_repos' = matching
           /\ IF matching = <<>>
              THEN outcome' = "SUCCESS" /\ pc' = "done"
              ELSE outcome' = outcome /\ pc' = "content_filtering"
    /\ UNCHANGED <<naming, fault, max_matching_repos, found_repositories,
                   repo_i, dir_requests>>
    /\ UNCHANGED <<garVars, fnVars, walkVars, discoverVars, commitVars>>

\* search.py 341-383 and 399-410: one iteration of the loop over
\* matching_repos: the walk, the pattern check, the cap
SearchRepository ==
    /\ pc = "content_filtering"
    /\ repo_i <= Len(matching_repos)
    /\ LET repo == matching_repos[repo_i]
           walk == get_all_files_recursive(
                       RepoTree(repo), RepoFaults(fault, repo), <<>>)
           asked == [k \in 1..Len(walk.requests) |-> <<repo, walk.requests[k]>>]
       IN  /\ dir_requests' = dir_requests \o asked
           /\ IF walk.raised
              THEN /\ outcome' = "FAILURE"
                   /\ pc' = "done"
                   /\ UNCHANGED <<found_repositories, repo_i>>
              ELSE \E matched_files \in
                          check_patterns_match(walk.all_files, file_patterns,
                                               match_all) :
                       LET found ==
                               AppendMatch(found_repositories,
                                   [repo |-> repo,
                                    name |-> RepoName(naming, repo),
                                    owner |-> RepoOwner(organization_name, repo),
                                    matched_files |-> matched_files],
                                   matched_files)
                       IN  /\ found_repositories' = found
                           /\ outcome' = outcome
                           /\ IF \/ /\ matched_files # <<>>
                                    /\ MatchCapReached(max_matching_repos, Len(found))
                                 \/ repo_i = Len(matching_repos)
                              THEN pc' = "summary" /\ repo_i' = repo_i
                              ELSE pc' = pc /\ repo_i' = repo_i + 1
    /\ UNCHANGED <<naming, fault, max_matching_repos, matching_repos>>
    /\ UNCHANGED <<garVars, fnVars, walkVars, discoverVars, commitVars>>

\* search.py 385-398: the summary, and the return of StatusCode.SUCCESS
DisplaySummary ==
    /\ pc = "summary"
    /\ outcome' = "SUCCESS"
    /\ pc' = "done"
    /\ UNCHANGED <<naming, fault, max_matching_repos, matching_repos,
                   found_repositories, repo_i, dir_requests>>
    /\ UNCHANGED <<garVars, fnVars, walkVars, discoverVars, commitVars>>

----------------------------------------------------------------------------
(* Specification of a run of search_repositories_for_files *)

OkPage(n) == [raises |-> FALSE, status_code |-> WORKING, n |-> n]
BadPage == [raises |-> FALSE, status_code |-> NOT_FOUND, n |-> 0]
RaisingPage == [raises |-> TRUE, status_code |-> 0, n |-> 0]

\* the providers of a run
RunListings ==
    {<<>>, <<OkPage(2)>>, <<OkPage(2), OkPage(1)>>, <<BadPage>>,
     <<OkPage(2), BadPage>>, <<RaisingPage>>, <<OkPage(1), RaisingPage>>}

\* the arguments of a run
RunCaps == {0, 2}
RunMatchCaps == {0, 1, 2}
RunFragments == {<<>>, <<"*">>, <<"a", "*">>, <<"c">>}
RunPatternLists == {<< <<"R">> >>, << <<"R">>, <<"c">> >>, << <<"z">> >>}

\* the directory listing that fails in a run, if any
RunFaults ==
    {[rec |-> <<1, 1>>, dir |-> <<>>, kind |-> "ok"]}
    \cup [rec : {<<1, 1>>}, dir : {<<>>, <<"s">>}, kind : ContentKinds \ {"ok"}]
    \cup [rec : {<<1, 2>>}, dir : {<<>>}, kind : ContentKinds \ {"ok"}]

Init ==
    /\ IdleWalk
    /\ IdleDiscover
    /\ IdleCommit
    /\ fn = "none" /\ fn_pc = "done" /\ fn_result = FALSE
    /\ repo_name = <<>> /\ file_names = <<>>
    /\ organization_name \in {"acme", "None"}
    /\ listing \in RunListings
    /\ max_repos \in RunCaps
    /\ page = 1
    /\ all_repositories = <<>>
    /\ listing_requests = <<>>
    /\ gar_pc = "loop"
    /\ fragment \in RunFragments
    /\ file_patterns \in RunPatternLists
    /\ match_all \in BOOLEAN
    /\ max_matching_repos \in RunMatchCaps
    /\ naming \in {0, 1}
    /\ fault \in RunFaults
    /\ matching_repos = <<>>
    /\ found_repositories = <<>>
    /\ repo_i = 1
    /\ dir_requests = <<>>
    /\ outcome = "none"
    /\ pc = "retrieving"

Next ==
    \/ FetchRaises
    \/ FetchFails
    \/ FetchPage
    \/ RetrievalRaised
    \/ FilterByName
    \/ SearchRepository
    \/ DisplaySummary

Spec == Init /\ [][Next]_vars

----------------------------------------------------------------------------
(* Specification of the matchers: inputs drawn from bounded sets, one call *)

\* the characters of repository names and of fragments
NameChars == {"a", "A", "b", "*"}
FragmentChars == {"a", "A", "b", "*", "?"}

\* the file names and the patterns of a check_patterns_match call
FileNameSet == {<<"a">>, <<"A", "b">>, <<"b", "a">>, <<"b">>}
PatternSet == {<<"a">>, <<"A", "B">>, <<"*", "b">>, <<"?">>, <<"c">>, <<>>}

InitMatch ==
    /\ IdleGar
    /\ IdleWalk
    /\ IdleRun
    /\ IdleDiscover
    /\ IdleCommit
    /\ fn_pc = "call"
    /\ fn_result = FALSE
    /\ \/ /\ fn = "matches_repo_pattern"
          /\ repo_name \in StringsUpTo(NameChars, MaxNameLen)
          /\ fragment \in StringsUpTo(FragmentChars, MaxFragLen)
          /\ file_names = <<>>
          /\ file_patterns = <<>>
          /\ match_all = FALSE
       \/ /\ fn = "check_patterns_match"
          /\ repo_name = <<>>
          /\ fragment = <<>>
          /\ file_names \in ListsUpTo(FileNameSet, MaxFiles)
          /\ file_patterns \in ListsUpTo(PatternSet, MaxPatterns)
          /\ match_all \in BOOLEAN

\* a call of matches_repo_pattern (search.py 266-274)
CallMatchesRepoPattern ==
    /\ fn = "matches_repo_pattern"
    /\ fn_pc = "call"
    /\ fn_result' = matches_repo_pattern(repo_name, fragment)
    /\ fn_pc' = "done"
    /\ UNCHANGED <<fn, repo_name, fragment, file_names, file_patterns, match_all>>
    /\ UNCHANGED <<garVars, walkVars, runVars, discoverVars, commitVars>>

\* a call of check_patterns_match (search.py 172-218)
CallCheckPatternsMatch ==
    /\ fn = "check_patterns_match"
    /\ fn_pc = "call"
    /\ fn_result' \in check_patterns_match(file_names, file_patterns, match_all)
    /\ fn_pc' = "done"
    /\ UNCHANGED <<fn, repo_name, fragment, file_names, file_patterns, match_all>>
    /\ UNCHANGED <<garVars, walkVars, runVars, discoverVars, commitVars>>

NextMatch == CallMatchesRepoPattern \/ CallCheckPatternsMatch

SpecMatch == InitMatch /\ [][NextMatch]_vars

----------------------------------------------------------------------------
(* _build_search_query (discover.py 163-201) *)

\* `if value:` for an Optional[str] or an Optional[List[str]]
Truthy(o) == o # None /\ o[1] # <<>>

\* `if value is not None:`
IsNotNone(o) == o # None

\* str(n) of a natural number, one character per digit
Digit(d) ==
    CASE d = 0 -> "0" [] d = 1 -> "1" [] d = 2 -> "2" [] d = 3 -> "3"
      [] d = 4 -> "4" [] d = 5 -> "5" [] d = 6 -> "6" [] d = 7 -> "7"
      [] d = 8 -> "8" [] d = 9 -> "9"

RECURSIVE Str(_)
Str(n) == IF n < 10 THEN <<Digit(n)>> ELSE Str(n \div 10) \o <<Digit(n % 10)>>

\* separator.join(parts)
RECURSIVE Join(_, _)
Join(parts, separator) ==
    IF parts = <<>> THEN <<>>
    ELSE IF Len(parts) = 1 THEN parts[1]
    ELSE parts[1] \o separator \o Join(Tail(parts), separator)

\* IsPresentCount changed the way `if stars:` would change `if stars is not None:`
IsPresentCountTruthy(o) == o # None /\ o[1] # 0

\* discover.py 178, 180: `if stars is not None:`, `if forks is not None:`
IsPresentCount(o) == IsNotNone(o)

\* discover.py 173-201
_build_search_query(language, stars, forks, created_after, updated_after, topics) ==
    LET language_part ==
            IF Truthy(language)
            THEN << <<"language:">> \o language[1] >> ELSE <<>>
        stars_part ==
            IF IsPresentCount(stars)
            THEN << <<"stars:>=">> \o Str(stars[1]) >> ELSE <<>>
        forks_part ==
            IF IsPresentCount(forks)
            THEN << <<"forks:>=">> \o Str(forks[1]) >> ELSE <<>>
        created_part ==
            IF Truthy(created_after)
            THEN << <<"created:>=">> \o created_after[1] >> ELSE <<>>
        updated_part ==
            IF Truthy(updated_after)
            THEN << <<"pushed:>=">> \o updated_after[1] >> ELSE <<>>
        topic_parts ==
            IF Truthy(topics)
            THEN [k \in 1..Len(topics[1]) |-> <<"topic:">> \o topics[1][k]]
            ELSE <<>>
        query_parts ==
            language_part \o stars_part \o forks_part \o created_part
                \o updated_part \o topic_parts
    IN  Join(IF query_parts = <<>> THEN << <<"is:public">> >> ELSE query_parts,
             <<" ">>)

----------------------------------------------------------------------------
(* Python values as they sit in a dict or in a JSON document: each value   *)
(* is <<type, payload>>, so that a validation or a conversion is computed. *)
(* A dict is the sequence of its <<key, value>> items, in insertion order. *)

PyNone == <<"null", <<>>>>
PyInt(n) == <<"int", n>>
PyStr(s) == <<"str", s>>
PyList(l) == <<"list", l>>
PyDict(d) == <<"dict", d>>
PyDatetime(d) == <<"datetime", d>>

TypeOf(value) == value[1]
ValueOf(value) == value[2]

\* an Optional argument as a typed value
OptStr(o) == IF o = None THEN PyNone ELSE PyStr(o[1])
OptInt(o) == IF o = None THEN PyNone ELSE PyInt(o[1])
OptStrList(o) ==
    IF o = None THEN PyNone
    ELSE PyList([k \in 1..Len(o[1]) |-> PyStr(o[1][k])])

\* `key in d`
HasKey(d, key) == \E k \in 1..Len(d) : d[k][1] = key

\* `d[key]`
Get(d, key) == d[CHOOSE k \in 1..Len(d) : d[k][1] = key][2]

\* `d[key] = value`
DictSet(d, key, value) ==
    IF HasKey(d, key)
    THEN [k \in 1..Len(d) |-> IF d[k][1] = key THEN <<key, value>> ELSE d[k]]
    ELSE Append(d, <<key, value>>)

----------------------------------------------------------------------------
(* The Pydantic models (models.py) *)

\* a field: its name, its type, whether it is Optional, its default
Field(name, type, optional, default) ==
    [name |-> name, type |-> type, optional |-> optional, default |-> default]

\* `Field(...)`: no default, the field is required
Required == <<"required", <<>>>>

\* models.py 9-35
RepositoryInfoFields ==
    <<Field("name", "str", FALSE, Required),
      Field("url", "str", FALSE, Required),
      Field("description", "str", TRUE, PyNone),
      Field("language", "str", TRUE, PyNone),
      Field("stars", "int", FALSE, Required),
      Field("forks", "int", FALSE, Required),
      Field("created_at", "datetime", FALSE, Required),
      Field("updated_at", "datetime", FALSE, Required),
      Field("files", "list", TRUE, PyNone)>>

\* models.py 38-72
DiscoverConfigurationFields ==
    <<Field("command", "str", FALSE, PyStr(<<"discover">>)),
      Field("language", "str", TRUE, PyNone),
      Field("stars", "int", TRUE, PyNone),
      Field("forks", "int", TRUE, PyNone),
      Field("created_after", "str", TRUE, PyNone),
      Field("updated_after", "str", TRUE, PyNone),
      Field("files", "list", TRUE, PyNone),
      Field("topics", "list", TRUE, PyNone),
      Field("max_depth", "int", TRUE, PyNone),
      Field("max_filter", "int", TRUE, PyNone),
      Field("max_display", "int", TRUE, PyNone),
      Field("search_query", "str", FALSE, Required)>>

\* a value is accepted for a field
Accepts(field, value) ==
    \/ field.optional /\ TypeOf(value) = "null"
    \/ /\ TypeOf(value) = field.type
       /\ TypeOf(value) = "list" =>
              \A k \in 1..Len(ValueOf(value)) : TypeOf(ValueOf(value)[k]) = "str"

\* BaseModel.__init__(**data): the validation
Validates(fields, data) ==
    \A i \in 1..Len(fields) :
        IF HasKey(data, fields[i].name)
        THEN Accepts(fields[i], Get(data, fields[i].name))
        ELSE fields[i].default # Required

\* BaseModel.__init__(**data): the instance, its fields in declaration
\* order; keys that are not fields are ignored
Construct(fields, data) ==
    [i \in 1..Len(fields) |->
        <<fields[i].name,
          IF HasKey(data, fields[i].name) THEN Get(data, fields[i].name)
          ELSE fields[i].default>>]

\* model_dump changed the way dropping every falsy value would change it
model_dump_exclude_falsy(model) ==
    SelectSeq(model,
              LAMBDA item :
                  /\ TypeOf(item[2]) # "null"
                  /\ TypeOf(item[2]) = "int" => ValueOf(item[2]) # 0
                  /\ TypeOf(item[2]) \in {"str", "list"} => ValueOf(item[2]) # <<>>)

\* model_dump changed the way a missing exclude_none would change it
model_dump_include_none(model) == model

\* BaseModel.model_dump(exclude_none=True) (models.py 91, 93)
model_dump_exclude_none(model) ==
    SelectSeq(model, LAMBDA item : TypeOf(item[2]) # "null")

\* models.py 82-96
create_discover_data(configuration, repo_models) ==
    [reporover |->
        << <<"configuration", PyDict(model_dump_exclude_none(configuration))>>,
           <<"repos", PyList([k \in 1..Len(repo_models) |->
                                 PyDict(model_dump_exclude_none(repo_models[k]))])>> >>]

----------------------------------------------------------------------------
(* _save_results_to_json (discover.py 324-375) *)

\* str(datetime): the `default=str` of json.dump
StrOfDatetime(d) == <<"str(">> \o d \o <<")">>

\* json.dump(value, file, default=str): the JSON document written
RECURSIVE json_dump(_)
json_dump(value) ==
    CASE TypeOf(value) = "datetime" -> PyStr(StrOfDatetime(ValueOf(value)))
      [] TypeOf(value) = "list" ->
            PyList([k \in 1..Len(ValueOf(value)) |-> json_dump(ValueOf(value)[k])])
      [] TypeOf(value) = "dict" ->
            PyDict([k \in 1..Len(ValueOf(value)) |->
                       <<ValueOf(value)[k][1], json_dump(ValueOf(value)[k][2])>>])
      [] OTHER -> value

\* a repository object of the provider (PyGithub's Repository)
Repository(rec) ==
    [name |-> PyStr(<<"r", Digit(rec[1]), Digit(rec[2])>>),
     html_url |-> PyStr(<<"https://github.com/o/r", Digit(rec[1]), Digit(rec[2])>>),
     description |-> IF rec[2] = 1 THEN PyStr(<<"d">>) ELSE PyNone,
     language |-> IF rec[1] = 1 THEN PyNone ELSE PyStr(<<"Python">>),
     stargazers_count |-> PyInt(rec[1] - 1),
     forks_count |-> PyInt(rec[2]),
     created_at |-> PyDatetime(<<"2023-01-0", Digit(rec[1])>>),
     updated_at |-> PyDatetime(<<"2023-06-0", Digit(rec[2])>>)]

\* discover.py 349-359: the keyword arguments of RepositoryInfo
RepositoryInfoData(repo, required_files) ==
    << <<"name", repo.name>>,
       <<"url", repo.html_url>>,
       <<"description", repo.description>>,
       <<"language", repo.language>>,
       <<"stars", repo.stargazers_count>>,
       <<"forks", repo.forks_count>>,
       <<"created_at", repo.created_at>>,
       <<"updated_at", repo.updated_at>>,
       <<"files", IF Truthy(required_files) THEN OptStrList(required_files)
                  ELSE PyNone>> >>

\* a file holding a JSON document
JsonFile(document) == [kind |-> "json", content |-> document]

\* discover.py 334-375: the value returned and the file left at save_file
_save_results_to_json(repos, file, can_open, config_data, query, required_files) ==
    LET config_dict == DictSet(config_data, "search_query", PyStr(query))
        repo_data == [k \in 1..Len(repos) |->
                         RepositoryInfoData(Repository(repos[k]),
                                            required_files)]
        valid ==
            /\ Validates(DiscoverConfigurationFields, config_dict)
            /\ \A k \in 1..Len(repos) :
                   Validates(RepositoryInfoFields, repo_data[k])
        reporover_data ==
            create_discover_data(
                Construct(DiscoverConfigurationFields, config_dict),
                [k \in 1..Len(repos) |->
                    Construct(RepositoryInfoFields, repo_data[k])])
    IN  IF valid /\ can_open
        THEN [returned |-> TRUE,
              file |-> JsonFile(json_dump(PyDict(
                           << <<"reporover", PyDict(reporover_data.reporover)>> >>)))]
        ELSE [returned |-> FALSE, file |-> file]

\* discover.py 65-76: configuration_data
ConfigurationData(a, depth, filter_cap, display_cap) ==
    << <<"language", OptStr(a.language)>>,
       <<"stars", OptInt(a.stars)>>,
       <<"forks", OptInt(a.forks)>>,
       <<"created_after", OptStr(a.created_after)>>,
       <<"updated_after", OptStr(a.updated_after)>>,
       <<"files", OptStrList(a.files)>>,
       <<"topics", OptStrList(a.topics)>>,
       <<"max_depth", OptInt(depth)>>,
       <<"max_filter", OptInt(filter_cap)>>,
       <<"max_display", OptInt(display_cap)>> >>

----------------------------------------------------------------------------
(* load_results_from_json and extract_configuration_from_data: the tests   *)
(* import them from reporover.discover, which does not define them; they   *)
(* are modelled from section 4.7 of the specification                      *)

\* a file that is not a JSON document
InvalidFile == [kind |-> "invalid", content |-> PyNone]

\* CompleteConfiguration changed the way a missing field validation would
\* change it
CompleteConfigurationUnchecked(value) == TypeOf(value) = "dict"

\* the configuration object is complete: an object that validates as a
\* DiscoverConfiguration
CompleteConfiguration(value) ==
    /\ TypeOf(value) = "dict"
    /\ Validates(DiscoverConfigurationFields, ValueOf(value))

\* load: the RepoRoverData of the document, or None for a missing file, a
\* syntax error, a structural mismatch or a missing required field
load_results_from_json(file) ==
    IF file.kind # "json" THEN None
    ELSE LET document == file.content
         IN  IF /\ TypeOf(document) = "dict"
                /\ HasKey(ValueOf(document), "reporover")
                /\ TypeOf(Get(ValueOf(document), "reporover")) = "dict"
                /\ LET reporover == ValueOf(Get(ValueOf(document), "reporover"))
                   IN  /\ HasKey(reporover, "configuration")
                       /\ \/ HasKey(reporover, "repos")
                          \/ HasKey(reporover, "repositories")
                       /\ CompleteConfiguration(Get(reporover, "configuration"))
             THEN Some([reporover |-> ValueOf(Get(ValueOf(document), "reporover"))])
             ELSE None

\* extract: the DiscoverConfiguration of loaded data, or None when the
\* configuration is missing, null, not an object, empty or incomplete
extract_configuration_from_data(data) ==
    IF ~HasKey(data.reporover, "configuration") THEN None
    ELSE LET configuration == Get(data.reporover, "configuration")
         IN  IF /\ TypeOf(configuration) = "dict"
                /\ ValueOf(configuration) # <<>>
                /\ CompleteConfiguration(configuration)
             THEN Some(Construct(DiscoverConfigurationFields,
                                 ValueOf(configuration)))
             ELSE None

----------------------------------------------------------------------------
(* Specification of the functions of discover.py: drawn inputs, one call *)

\* the criteria a call may pass
LanguageArgs == {None, Some(<<>>), Some(<<"p", "y">>)}
CountArgs == {None, Some(0), Some(7), Some(12)}
DateArgs == {None, Some(<<>>), Some(<<"2023-01-01">>)}
TopicArgs == {None} \cup {Some(l) : l \in ListsUpTo({<<"w">>, <<"c", "i">>}, MaxTopics)}

\* the arguments of a save
SaveArgs ==
    {[NoArgs EXCEPT !.language = l, !.stars = s, !.forks = f,
                    !.created_after = c, !.files = fl, !.topics = t,
                    !.max_depth = d, !.max_filter = Some(2),
                    !.max_display = m, !.save_file = Some(<<"out.json">>)] :
        l \in LanguageArgs, s \in {None, Some(0), Some(7)},
        f \in {None, Some(12)}, c \in {None, Some(<<"2023-01-01">>)},
        fl \in {None, Some(<< <<"R">> >>)}, t \in {None, Some(<< <<"w">> >>)},
        d \in {None, Some(1)}, m \in {None, Some(1)}}
SaveQueries == {<<"is:public">>, <<"q", " ", "r">>}
SaveLists == {<<>>, << <<1, 1>> >>, << <<2, 2>>, <<1, 1>> >>}

\* a configuration object of a document
ValidStoredConfiguration ==
    << <<"language", PyStr(<<"p", "y">>)>>, <<"stars", PyInt(7)>>,
       <<"search_query", PyStr(<<"q">>)>>,
       <<"timestamp", PyStr(<<"2023-07-01T12:00:00Z">>)>> >>
PartialStoredConfiguration ==
    << <<"language", PyStr(<<"j", "s">>)>>, <<"stars", PyNone>>,
       <<"files", PyNone>>, <<"max_depth", PyInt(3)>>,
       <<"search_query", PyStr(<<"q">>)>> >>
StoredConfigurations ==
    {PyDict(ValidStoredConfiguration),
     PyDict(PartialStoredConfiguration),
     PyDict(<<>>),
     PyDict(<< <<"language", PyStr(<<"p", "y">>)>> >>),
     PyDict(<< <<"invalid", PyStr(<<"data">>)>> >>),
     PyDict(<< <<"search_query", PyInt(7)>> >>),
     PyDict(<< <<"search_query", PyStr(<<"q">>)>>, <<"stars", PyStr(<<"many">>)>> >>),
     PyStr(<<"invalid_string">>),
     PyNone}

\* the `reporover` dict of a document
StoredContainers ==
    {<<>>}
    \cup {<< <<"configuration", c>> >> : c \in StoredConfigurations}
    \cup {<< <<"configuration", c>>, <<"repositories", PyList(<<>>)>> >> :
             c \in StoredConfigurations}
    \cup {<< <<"configuration", c>>, <<"repos", PyList(<<>>)>> >> :
             c \in StoredConfigurations}

\* the files a load may find
StoredFiles ==
    {MissingFile, InvalidFile,
     JsonFile(PyDict(<<>>)),
     JsonFile(PyList(<<>>)),
     JsonFile(PyDict(<< <<"invalid", PyStr(<<"structure">>)>> >>)),
     JsonFile(PyDict(<< <<"configuration",
                          PyDict(<< <<"language", PyStr(<<"p", "y">>)>> >>)>> >>)),
     JsonFile(PyDict(<< <<"configuration", PyDict(ValidStoredConfiguration)>>,
                        <<"repositories", PyList(<<>>)>> >>)),
     JsonFile(PyDict(<< <<"reporover", PyStr(<<"x">>)>> >>))}
    \cup {JsonFile(PyDict(<< <<"reporover", PyDict(r)>> >>)) : r \in StoredContainers}

InitDoc ==
    /\ IdleGar
    /\ IdleFn
    /\ IdleWalk
    /\ IdleRun
    /\ IdleDisc
    /\ IdleCommit
    /\ save_result = FALSE
    /\ extracted_config = None
    /\ \/ /\ doc_fn = "_build_search_query"
          /\ \E l \in LanguageArgs, s \in CountArgs, f \in CountArgs,
                c \in DateArgs, u \in DateArgs, t \in TopicArgs :
                 args = [NoArgs EXCEPT !.language = l, !.stars = s, !.forks = f,
                                       !.created_after = c, !.updated_after = u,
                                       !.topics = t]
          /\ repos_list = <<>>
          /\ search_query = <<>>
          /\ disk = MissingFile
          /\ writable = TRUE
          /\ loaded_data = None
          /\ doc_pc = "call"
       \/ /\ doc_fn = "_save_results_to_json"
          /\ args \in SaveArgs
          /\ repos_list \in SaveLists
          /\ search_query \in SaveQueries
          /\ disk = MissingFile
          /\ writable \in BOOLEAN
          /\ loaded_data = None
          /\ doc_pc = "call"
       \/ /\ doc_fn = "load_results_from_json"
          /\ args = NoArgs
          /\ repos_list = <<>>
          /\ search_query = <<>>
          /\ disk \in StoredFiles
          /\ writable = TRUE
          /\ loaded_data = None
          /\ doc_pc = "saved"
       \/ /\ doc_fn = "extract_configuration_from_data"
          /\ args = NoArgs
          /\ repos_list = <<>>
          /\ search_query = <<>>
          /\ disk = MissingFile
          /\ writable = TRUE
          /\ loaded_data \in {Some([reporover |-> r]) : r \in StoredContainers}
          /\ doc_pc = "loaded"

\* a call of _build_search_query (discover.py 163-201)
CallBuildSearchQuery ==
    /\ doc_fn = "_build_search_query"
    /\ doc_pc = "call"
    /\ search_query' = _build_search_query(args.language, args.stars, args.forks,
                                           args.created_after, args.updated_after,
                                           args.topics)
    /\ doc_pc' = "done"
    /\ UNCHANGED <<doc_fn, args, repos_list, disk, writable, save_result,
                   loaded_data, extracted_config>>
    /\ UNCHANGED <<garVars, fnVars, walkVars, runVars, discVars, commitVars>>

\* a call of _save_results_to_json (discover.py 324-375)
CallSave ==
    /\ doc_fn = "_save_results_to_json"
    /\ doc_pc = "call"
    /\ LET saved == _save_results_to_json(
                        repos_list, disk, writable,
                        ConfigurationData(args, args.max_depth, args.max_filter,
                                          args.max_display),
                        search_query, args.files)
       IN  /\ save_result' = saved.returned
           /\ disk' = saved.file
    /\ doc_pc' = "saved"
    /\ UNCHANGED <<doc_fn, args, repos_list, search_query, writable, loaded_data,
                   extracted_config>>
    /\ UNCHANGED <<garVars, fnVars, walkVars, runVars, discVars, commitVars>>

\* a call of load_results_from_json on the file at the save path
CallLoad ==
    /\ doc_pc = "saved"
    /\ loaded_data' = load_results_from_json(disk)
    /\ doc_pc' = "loaded"
    /\ UNCHANGED <<doc_fn, args, repos_list, search_query, disk, writable,
                   save_result, extracted_config>>
    /\ UNCHANGED <<garVars, fnVars, walkVars, runVars, discVars, commitVars>>

\* a call of extract_configuration_from_data on loaded data
CallExtract ==
    /\ doc_pc = "loaded"
    /\ loaded_data # None
    /\ extracted_config' = extract_configuration_from_data(loaded_data[1])
    /\ doc_pc' = "done"
    /\ UNCHANGED <<doc_fn, args, repos_list, search_query, disk, writable,
                   save_result, loaded_data>>
    /\ UNCHANGED <<garVars, fnVars, walkVars, runVars, discVars, commitVars>>

NextDoc ==
    \/ CallBuildSearchQuery
    \/ CallSave
    \/ CallLoad
    \/ CallExtract

SpecDoc == InitDoc /\ [][NextDoc]_vars

----------------------------------------------------------------------------
(* search_repositories (discover.py 19-160) and the functions it calls *)

\* the builtin min
min(a, b) == IF a < b THEN a ELSE b

\* the parts of the state search_repositories leaves alone
discoverIdle == <<doc_fn, loaded_data, extracted_config, doc_pc, walker, tree,
                  faults, all_files, walk_requests, walk_calls, walk_raised,
                  walk_pc>>

\* the PaginatedList raises while it fetches one of the items first..last
FetchRaisesIn(list, first, last) ==
    list.raises # "none" /\ list.at >= first /\ list.at <= last

\* FoundFiles changed the way a test of the entry's type would change it
FoundFilesOfTypeFile(repo_files, required_files) ==
    {repo_files[k].name :
        k \in {j \in 1..Len(repo_files) :
                  /\ repo_files[j].type = "file"
                  /\ repo_files[j].name \in Range(required_files)}}

\* discover.py 263-268: found_files after the loop over repo_files
FoundFiles(repo_files, required_files) ==
    {repo_files[k].name :
        k \in {j \in 1..Len(repo_files) :
                  repo_files[j].name \in Range(required_files)}}

\* discover.py 254-270: _repository_contains_files; no call it makes raises
_repository_contains_files(repository, required_files, depth) ==
    LET repo_files ==
            _get_repository_files(RepoTree(repository),
                                  RepoFaults(fault, repository), depth).all_files
        found_files == FoundFiles(repo_files, required_files)
    IN  Cardinality(found_files) = Len(required_files)

\* FilterCapReached changed the way an off-by-one would change it
FilterCapReachedLate(count, cap) == count > cap

\* discover.py 239: `if repo_count >= MAX_FILTER:`
FilterCapReached(count, cap) == count >= cap

\* ShowingFirst changed the way `>=` would change `>`
ShowingFirstAtCap(total_count, max_results) == total_count >= max_results

\* discover.py 436, 498: `if total_count > max_results:`
ShowingFirst(total_count, max_results) == total_count > max_results

\* discover.py 403-405, 470-472: the rows added before the loop breaks
Rows(items, max_results) == SubSeq(items, 1, min(Len(items), max_results))

\* discover.py 435-439, 495-501: the lines printed below the table
Summary(headline, total_count, max_results) ==
    << <<headline, total_count>> >>
    \o (IF ShowingFirst(total_count, max_results)
        THEN << <<"Showing first", max_results>> >> ELSE <<>>)

\* SaveRequested changed the way a missing `if save_file:` would change it
SaveAlways(save_file) == TRUE

\* discover.py 103, 130: `if save_file:`
SaveRequested(save_file) == Truthy(save_file)

\* StatusOfSave changed the way a missing `return StatusCode.FAILURE` would
\* change it
StatusOfSaveIgnored(success) == "SUCCESS"

\* discover.py 111-119, 138-147: the status after a requested save
StatusOfSave(success) == IF success THEN "SUCCESS" ELSE "FAILURE"

\* discover.py 37-76: the globals, the query, configuration_data
SearchRepositoriesEnter ==
    /\ d_pc \in {"call", "returned"}
    /\ pending_calls # <<>>
    /\ LET a == Head(pending_calls)
           depth == IF a.max_depth = None THEN MAX_DEPTH ELSE a.max_depth[1]
           filter_cap == IF a.max_filter = None THEN MAX_FILTER ELSE a.max_filter[1]
           display_cap == IF a.max_display = None THEN MAX_DISPLAY
                          ELSE a.max_display[1]
       IN  /\ args' = a
           /\ max_depth' = depth
           /\ MAX_DEPTH' = depth
           /\ max_filter' = filter_cap
           /\ MAX_FILTER' = filter_cap
           /\ max_display' = display_cap
           /\ MAX_DISPLAY' = display_cap
           /\ search_query' = _build_search_query(a.language, a.stars, a.forks,
                                                  a.created_after, a.updated_after,
                                                  a.topics)
           /\ configuration_data' =
                  ConfigurationData(a, Some(depth), Some(filter_cap), Some(display_cap))
    /\ pending_calls' = Tail(pending_calls)
    /\ filtered_repositories' = <<>>
    /\ repo_count' = 0
    /\ walked' = <<>>
    /\ table' = <<>>
    /\ console' = <<>>
    /\ presented' = FALSE
    /\ written' = <<>>
    /\ raised' = "none"
    /\ status' = "none"
    /\ save_result' = FALSE
    /\ repos_list' = <<>>
    /\ d_pc' = "searching"
    /\ UNCHANGED <<paginated_list, disk, writable, discoverIdle>>
    /\ UNCHANGED <<garVars, fnVars, runVars, commitVars>>

\* discover.py 62, 83, 125 and 151-160: the search request, sent when
\* repositories.totalCount is first read
CountRepositories ==
    /\ d_pc = "searching"
    /\ IF FetchRaisesIn(paginated_list, 0, 0)
       THEN /\ raised' = paginated_list.raises
            /\ status' = "FAILURE"
            /\ d_pc' = "returned"
       ELSE /\ raised' = raised
            /\ status' = status
            /\ d_pc' = IF Truthy(args.files) THEN "filtering" ELSE "displaying"
    /\ UNCHANGED <<MAX_DEPTH, MAX_DISPLAY, MAX_FILTER, max_filter, max_display,
                   paginated_list, configuration_data, filtered_repositories,
                   repo_count, walked, table, console, presented, written,
                   pending_calls>>
    /\ UNCHANGED <<args, repos_list, search_query, disk, writable, save_result,
                   max_depth, discoverIdle>>
    /\ UNCHANGED <<garVars, fnVars, runVars, commitVars>>

\* discover.py 238 and 151-160: the iterator of the filter loop raises
FilterRaises ==
    /\ d_pc = "filtering"
    /\ repo_count < Len(paginated_list.items)
    /\ FetchRaisesIn(paginated_list, repo_count + 1, repo_count + 1)
    /\ raised' = paginated_list.raises
    /\ status' = "FAILURE"
    /\ d_pc' = "returned"
    /\ UNCHANGED <<MAX_DEPTH, MAX_DISPLAY, MAX_FILTER, max_filter, max_display,
                   paginated_list, configuration_data, filtered_repositories,
                   repo_count, walked, table, console, presented, written,
                   pending_calls>>
    /\ UNCHANGED <<args, repos_list, search_query, disk, writable, save_result,
                   max_depth, discoverIdle>>
    /\ UNCHANGED <<garVars, fnVars, runVars, commitVars>>

\* discover.py 238-240 and 251: the filter loop ends, exhausted or at the cap
FilterEnds ==
    /\ d_pc = "filtering"
    /\ \/ repo_count >= Len(paginated_list.items)
       \/ /\ ~FetchRaisesIn(paginated_list, repo_count + 1, repo_count + 1)
          /\ FilterCapReached(repo_count, MAX_FILTER)
    /\ d_pc' = "displaying"
    /\ UNCHANGED <<MAX_DEPTH, MAX_DISPLAY, MAX_FILTER, max_filter, max_display,
                   paginated_list, configuration_data, filtered_repositories,
                   repo_count, walked, table, console, presented, written,
                   raised, status, pending_calls>>
    /\ UNCHANGED <<args, repos_list, search_query, disk, writable, save_result,
                   max_depth, discoverIdle>>
    /\ UNCHANGED <<garVars, fnVars, runVars, commitVars>>

\* discover.py 238-249: one iteration of the filter loop
FilterRepository ==
    /\ d_pc = "filtering"
    /\ repo_count < Len(paginated_list.items)
    /\ ~FetchRaisesIn(paginated_list, repo_count + 1, repo_count + 1)
    /\ ~FilterCapReached(repo_count, MAX_FILTER)
    /\ LET repository == paginated_list.items[repo_count + 1]
       IN  /\ walked' = Append(walked, repository)
           /\ filtered_repositories' =
                  IF _repository_contains_files(repository, args.files[1], max_depth)
                  THEN Append(filtered_repositories, repository)
                  ELSE filtered_repositories
    /\ repo_count' = repo_count + 1
    /\ UNCHANGED <<MAX_DEPTH, MAX_DISPLAY, MAX_FILTER, max_filter, max_display,
                   paginated_list, configuration_data, table, console, presented,
                   written, raised, status, d_pc, pending_calls>>
    /\ UNCHANGED <<args, repos_list, search_query, disk, writable, save_result,
                   max_depth, discoverIdle>>
    /\ UNCHANGED <<garVars, fnVars, runVars, commitVars>>

\* discover.py 99-103 and 442-501: _display_search_results_with_files
DisplaySearchResultsWithFiles ==
    /\ d_pc = "displaying"
    /\ Truthy(args.files)
    /\ table' = Rows(filtered_repositories, MAX_DISPLAY)
    /\ console' = Summary("Found", Len(filtered_repositories), MAX_DISPLAY)
    /\ presented' = TRUE
    /\ IF SaveRequested(args.save_file)
       THEN d_pc' = "saving" /\ status' = status
       ELSE d_pc' = "returned" /\ status' = "SUCCESS"
    /\ UNCHANGED <<MAX_DEPTH, MAX_DISPLAY, MAX_FILTER, max_filter, max_display,
                   paginated_list, configuration_data, filtered_repositories,
                   repo_count, walked, written, raised, pending_calls>>
    /\ UNCHANGED <<args, repos_list, search_query, disk, writable, save_result,
                   max_depth, discoverIdle>>
    /\ UNCHANGED <<garVars, fnVars, runVars, commitVars>>

\* discover.py 128-130, 378-439 and 151-160: _display_search_results; the
\* loop fetches one item more than it shows before it breaks
DisplaySearchResults ==
    /\ d_pc = "displaying"
    /\ ~Truthy(args.files)
    /\ LET items == paginated_list.items
           fetched == min(Len(items),
                          (IF MAX_DISPLAY > 0 THEN MAX_DISPLAY ELSE 0) + 1)
       IN  IF FetchRaisesIn(paginated_list, 1, fetched)
           THEN /\ table' = Rows(items, min(MAX_DISPLAY, paginated_list.at - 1))
                /\ raised' = paginated_list.raises
                /\ status' = "FAILURE"
                /\ d_pc' = "returned"
                /\ UNCHANGED <<console, presented>>
           ELSE /\ table' = Rows(items, MAX_DISPLAY)
                /\ console' = Summary("Discovered", paginated_list.totalCount,
                                      MAX_DISPLAY)
                /\ presented' = TRUE
                /\ raised' = raised
                /\ IF SaveRequested(args.save_file)
                   THEN d_pc' = "saving" /\ status' = status
                   ELSE d_pc' = "returned" /\ status' = "SUCCESS"
    /\ UNCHANGED <<MAX_DEPTH, MAX_DISPLAY, MAX_FILTER, max_filter, max_display,
                   paginated_list, configuration_data, filtered_repositories,
                   repo_count, walked, written, pending_calls>>
    /\ UNCHANGED <<args, repos_list, search_query, disk, writable, save_result,
                   max_depth, discoverIdle>>
    /\ UNCHANGED <<garVars, fnVars, runVars, commitVars>>

\* discover.py 103-119 and 130-147: the save, and the status returned
SaveResults ==
    /\ d_pc = "saving"
    /\ LET to_save ==
               IF Truthy(args.files) THEN filtered_repositories
               ELSE Rows(paginated_list.items, max_display)
           saved ==
               _save_results_to_json(
                   to_save, disk, writable, configuration_data, search_query,
                   IF Truthy(args.files) THEN args.files ELSE None)
       IN  /\ repos_list' = to_save
           /\ save_result' = saved.returned
           /\ disk' = saved.file
           /\ written' = IF saved.returned
                         THEN Append(written, saved.file.content) ELSE written
           /\ status' = StatusOfSave(saved.returned)
    /\ d_pc' = "returned"
    /\ UNCHANGED <<MAX_DEPTH, MAX_DISPLAY, MAX_FILTER, max_filter, max_display,
                   paginated_list, configuration_data, filtered_repositories,
                   repo_count, walked, table, console, presented, raised,
                   pending_calls>>
    /\ UNCHANGED <<args, search_query, writable, max_depth, discoverIdle>>
    /\ UNCHANGED <<garVars, fnVars, runVars, commitVars>>

----------------------------------------------------------------------------
(* Specification of a process that calls search_repositories *)

\* Numbers.MAX_FILTER.value
MAX_FILTER_VALUE == 100

\* Numbers.MAX_DEPTH.value and Numbers.MAX_KEEP.value are set in
\* reporover/constants.py: every value of these sets is a possible default
DefaultDepths == {0, MaxDepthArg}
DefaultDisplays == {2, 10}

\* what the search may answer
PaginatedLists ==
    {NoRepositories,
     [items |-> << <<1, 2>>, <<1, 1>>, <<2, 1>> >>, totalCount |-> 3,
      raises |-> "none", at |-> 0],
     [items |-> << <<1, 1>>, <<2, 2>> >>, totalCount |-> 2,
      raises |-> "none", at |-> 0],
     [items |-> << <<1, 1>> >>, totalCount |-> 50, raises |-> "none", at |-> 0],
     [items |-> <<>>, totalCount |-> 0, raises |-> "github", at |-> 0],
     [items |-> <<>>, totalCount |-> 0, raises |-> "other", at |-> 0],
     [items |-> << <<1, 1>>, <<1, 2>>, <<2, 1>> >>, totalCount |-> 3,
      raises |-> "github", at |-> 2]}

\* the lists of required names a caller may pass: "R" is a file of every
\* root, "s" a directory of the root of the deep tree, "m" a file at depth 1
\* and "x" a file at depth 2 of the deep tree, "n" is in no tree
RequiredFileLists ==
    {<< <<"R">> >>, << <<"m">> >>, << <<"s">> >>, << <<"R">>, <<"R">> >>,
     << <<"R">>, <<"x">> >>, << <<"n">> >>}

\* the calls a process may make
DiscoverCalls ==
    {[NoArgs EXCEPT !.language = l, !.files = fl, !.max_depth = d,
                    !.max_filter = f, !.max_display = m, !.save_file = sf] :
        l \in {None, Some(<<"p", "y">>)},
        fl \in {None, Some(<<>>)} \cup {Some(r) : r \in RequiredFileLists},
        d \in {None, Some(1)}, f \in {None, Some(1)},
        m \in {None, Some(0), Some(2)},
        sf \in {None, Some(<<"out.json">>)}}

\* the calls of a process that calls twice
FirstCalls ==
    {[NoArgs EXCEPT !.files = fl, !.max_depth = Some(0), !.max_filter = Some(1),
                    !.max_display = Some(1), !.save_file = Some(<<"out.json">>)] :
        fl \in {None, Some(<< <<"R">> >>)}}
SecondCalls ==
    {[NoArgs EXCEPT !.files = fl, !.save_file = sf] :
        fl \in {None, Some(<< <<"m">> >>)}, sf \in {None, Some(<<"out.json">>)}}

\* the directory listing that fails during the filter, if any
DiscoverFaults ==
    {[rec |-> <<1, 1>>, dir |-> <<>>, kind |-> "ok"],
     [rec |-> <<1, 1>>, dir |-> <<"s">>, kind |-> "raise"]}

InitDiscover ==
    /\ IdleCommit
    /\ IdleGar
    /\ IdleFn
    /\ IdleWalk
    /\ naming = 0
    /\ fault \in DiscoverFaults
    /\ max_matching_repos = 0
    /\ matching_repos = <<>>
    /\ found_repositories = <<>>
    /\ repo_i = 1
    /\ dir_requests = <<>>
    /\ outcome = "none"
    /\ pc = "idle"
    /\ doc_fn = "none"
    /\ args = NoArgs
    /\ repos_list = <<>>
    /\ search_query = <<>>
    /\ disk = MissingFile
    /\ writable \in BOOLEAN
    /\ save_result = FALSE
    /\ loaded_data = None
    /\ extracted_config = None
    /\ doc_pc = "done"
    /\ MAX_DEPTH \in DefaultDepths
    /\ MAX_DISPLAY \in DefaultDisplays
    /\ MAX_FILTER = MAX_FILTER_VALUE
    /\ max_filter = 0
    /\ max_display = 0
    /\ paginated_list \in PaginatedLists
    /\ configuration_data = <<>>
    /\ filtered_repositories = <<>>
    /\ repo_count = 0
    /\ walked = <<>>
    /\ table = <<>>
    /\ console = <<>>
    /\ presented = FALSE
    /\ written = <<>>
    /\ raised = "none"
    /\ status = "none"
    /\ d_pc = "call"
    /\ pending_calls \in {<<a>> : a \in DiscoverCalls}
                         \cup {<<a, b>> : a \in FirstCalls, b \in SecondCalls}

NextDiscover ==
    \/ SearchRepositoriesEnter
    \/ CountRepositories
    \/ FilterRaises
    \/ FilterEnds
    \/ FilterRepository
    \/ DisplaySearchResultsWithFiles
    \/ DisplaySearchResults
    \/ SaveResults

SpecDiscover == InitDiscover /\ [][NextDiscover]_vars

----------------------------------------------------------------------------
(* commit_files_to_repo (repository.py 18-85) *)

\* StatusCode.CREATED.value
CREATED == 201
\* a status a provider may refuse a PUT with
FORBIDDEN == 403

\* the alphabet of base64.b64encode
B64Alphabet ==
    <<"A", "B", "C", "D", "E", "F", "G", "H", "I", "J", "K", "L", "M", "N", "O",
      "P", "Q", "R", "S", "T", "U", "V", "W", "X", "Y", "Z", "a", "b", "c", "d",
      "e", "f", "g", "h", "i", "j", "k", "l", "m", "n", "o", "p", "q", "r", "s",
      "t", "u", "v", "w", "x", "y", "z", "0", "1", "2", "3", "4", "5", "6", "7",
      "8", "9", "+", "/">>

\* the four characters that encode a group of one, two or three bytes
B64Group(bytes) ==
    LET b(k) == IF k <= Len(bytes) THEN bytes[k] ELSE 0
        n == b(1) * 65536 + b(2) * 256 + b(3)
        c(k) == B64Alphabet[((n \div (64 ^ (4 - k))) % 64) + 1]
    IN  <<c(1), c(2),
          IF Len(bytes) >= 2 THEN c(3) ELSE "=",
          IF Len(bytes) >= 3 THEN c(4) ELSE "=">>

\* repository.py 49: base64.b64encode(file_content).decode()
RECURSIVE b64encode(_)
b64encode(bytes) ==
    IF bytes = <<>> THEN <<>>
    ELSE IF Len(bytes) <= 3 THEN B64Group(bytes)
    ELSE B64Group(SubSeq(bytes, 1, 3)) \o b64encode(SubSeq(bytes, 4, Len(bytes)))

\* file_path.name: the last component of a path
PathName(file_path) == file_path[Len(file_path)]

\* repository.py 50-52: (destination_directory / file_path.name).as_posix()
DestinationPath(dest, file_path) ==
    Join([k \in 1..(Len(dest) + 1) |->
             IF k <= Len(dest) THEN <<dest[k]>> ELSE <<PathName(file_path)>>],
         <<"/">>)

\* repository.py 54-67: data
PutData(message, encoded_content, get_response) ==
    << <<"message", message>>, <<"content", encoded_content>>,
       <<"branch", <<"main">> >> >>
    \o (IF get_response.status_code = WORKING
        THEN << <<"sha", get_response.sha>> >> ELSE <<>>)

\* repository.py 71-74: the statuses of a PUT that committed
PutCommitted(status_code) == status_code \in {WORKING, CREATED}

\* repository.py 41-48: a file that cannot be read ends the call
CommitReadFails ==
    /\ commit_pc = "loop"
    /\ file_i <= Len(commit_files)
    /\ ~file_contents[commit_files[file_i]].readable
    /\ reports' = Append(reports, <<"Failed to read", commit_files[file_i]>>)
    /\ commit_status' = "FAILURE"
    /\ commit_pc' = "returned"
    /\ UNCHANGED <<commit_files, file_contents, destination_directory,
                   commit_message, get_responses, put_responses, file_i,
                   http_requests>>
    /\ UNCHANGED <<garVars, fnVars, walkVars, runVars, discoverVars>>

\* repository.py 40-84: one iteration of the loop for a file that is read
CommitFile ==
    /\ commit_pc = "loop"
    /\ file_i <= Len(commit_files)
    /\ file_contents[commit_files[file_i]].readable
    /\ LET file_path == commit_files[file_i]
           encoded_content == b64encode(file_contents[file_path].bytes)
           destination_path == DestinationPath(destination_directory, file_path)
           get_response == get_responses[file_i]
           data == PutData(commit_message, encoded_content, get_response)
           response == put_responses[file_i]
       IN  /\ http_requests' =
                  http_requests
                  \o << [method |-> "GET", path |-> destination_path, json |-> <<>>],
                        [method |-> "PUT", path |-> destination_path, json |-> data] >>
           /\ IF PutCommitted(response.status_code)
              THEN /\ reports' = Append(reports, <<"Committed", PathName(file_path)>>)
                   /\ file_i' = file_i + 1
                   /\ UNCHANGED <<commit_status, commit_pc>>
              ELSE /\ reports' =
                          reports
                          \o << <<"Failed to commit", PathName(file_path),
                                  response.status_code>>,
                                <<"print_json_string", response.text>> >>
                   /\ commit_status' = "FAILURE"
                   /\ commit_pc' = "returned"
                   /\ UNCHANGED file_i
    /\ UNCHANGED <<commit_files, file_contents, destination_directory,
                   commit_message, get_responses, put_responses>>
    /\ UNCHANGED <<garVars, fnVars, walkVars, runVars, discoverVars>>

\* repository.py 85: the loop is over
CommitReturns ==
    /\ commit_pc = "loop"
    /\ file_i > Len(commit_files)
    /\ commit_status' = "WORKING"
    /\ commit_pc' = "returned"
    /\ UNCHANGED <<commit_files, file_contents, destination_directory,
                   commit_message, get_responses, put_responses, file_i,
                   http_requests, reports>>
    /\ UNCHANGED <<garVars, fnVars, walkVars, runVars, discoverVars>>

----------------------------------------------------------------------------
(* Specification of one call of commit_files_to_repo *)

\* the paths a caller may pass
CommitPaths == {<<"test.txt">>, <<"sub", "main.py">>}

\* the lists of files a caller may pass
CommitFileLists ==
    {<<>>, << <<"test.txt">> >>, << <<"test.txt">>, <<"sub", "main.py">> >>,
     << <<"sub", "main.py">>, <<"test.txt">> >>}

\* what the directory may hold for a path
FileStates ==
    {[readable |-> FALSE, bytes |-> <<>>], [readable |-> TRUE, bytes |-> <<>>],
     [readable |-> TRUE, bytes |-> <<77>>], [readable |-> TRUE, bytes |-> <<77, 97>>],
     [readable |-> TRUE, bytes |-> <<255, 97, 110, 0>>]}

\* how the provider may answer the GET and the PUT of one file
GetResponses ==
    {[status_code |-> WORKING, sha |-> <<"abc123">>],
     [status_code |-> NOT_FOUND, sha |-> <<>>]}
PutResponses ==
    {[status_code |-> WORKING, text |-> <<"{}">>],
     [status_code |-> CREATED, text |-> <<"{}">>],
     [status_code |-> FORBIDDEN, text |-> <<"{\"message\": \"Forbidden\"}">>]}

InitCommit ==
    /\ IdleGar
    /\ IdleFn
    /\ IdleWalk
    /\ IdleRun
    /\ IdleDiscover
    /\ commit_files \in CommitFileLists
    /\ file_contents \in [CommitPaths -> FileStates]
    /\ destination_directory \in {<<>>, <<"src">>}
    /\ commit_message = <<"Initial commit">>
    /\ get_responses \in [1..Len(commit_files) -> GetResponses]
    /\ put_responses \in [1..Len(commit_files) -> PutResponses]
    /\ file_i = 1
    /\ http_requests = <<>>
    /\ reports = <<>>
    /\ commit_status = "none"
    /\ commit_pc = "loop"

NextCommit == CommitReadFails \/ CommitFile \/ CommitReturns

SpecCommit == InitCommit /\ [][NextCommit]_vars

----------------------------------------------------------------------------
(* Claims about get_all_repositories, checked under SpecGar *)

Min(a, b) == IF a < b THEN a ELSE b

\* every page of the listing answers with status 200
SuccessfulListing(l) ==
    \A p \in 1..Len(l) : ~l[p].raises /\ l[p].status_code = WORKING

\* the number of records on the pages before page p
RECURSIVE RecordsBefore(_, _)
RecordsBefore(l, p) ==
    IF p <= 1 THEN 0
    ELSE RecordsBefore(l, p - 1) + PageResponse(l, p - 1).n

\* the first page without records
FirstEmptyPage(l) ==
    CHOOSE p \in 1..(Len(l) + 1) :
        /\ PageResponse(l, p).n = 0
        /\ \A q \in 1..(p - 1) : PageResponse(l, q).n > 0

\* the k-th record in provider order
RecordAt(l, k) ==
    CHOOSE r \in {<<p, i>> : p \in 1..Len(l), i \in 1..MaxPageLen} :
        /\ r[2] <= PageResponse(l, r[1]).n
        /\ RecordsBefore(l, r[1]) + r[2] = k

\* a full page: the per_page=100 of the listing URLs, scaled to the model
FullPage == MaxPageLen

\* three full pages with status 200, then an empty page
ThreeFullThenEmpty(l) ==
    /\ Len(l) >= 3
    /\ \A p \in 1..3 : ~l[p].raises /\ l[p].status_code = WORKING
                       /\ l[p].n = FullPage
    /\ PageResponse(l, 4) = [raises |-> FALSE, status_code |-> WORKING, n |-> 0]

\* C1: for a positive cap and a listing whose pages all succeed,
\* get_all_repositories returns exactly the first min(N, max_repos) records in
\* provider order, N the number of records before the first empty page; an
\* overflow in the middle of a page is cut to exactly max_repos records.
C1_CappedPrefix ==
    (gar_pc = "returned" /\ max_repos > 0 /\ SuccessfulListing(listing)) =>
        LET N == RecordsBefore(listing, FirstEmptyPage(listing))
        IN  /\ Len(all_repositories) = Min(N, max_repos)
            /\ \A k \in 1..Len(all_repositories) :
                   all_repositories[k] = RecordAt(listing, k)

\* C1 witness: the cap was crossed in the middle of the second or a later page
C1_Witness ==
    /\ gar_pc = "returned" /\ max_repos > 0 /\ SuccessfulListing(listing)
    /\ page >= 2
    /\ RecordsBefore(listing, page + 1) > max_repos
    /\ Len(all_repositories) = max_repos

\* C2 as stated: facing three full pages and then an empty page, the loop
\* yields all the records of the three pages without a 4th request (here
\* for a positive cap).
C2_NoFourthRequest ==
    (gar_pc = "returned" /\ ThreeFullThenEmpty(listing) /\ max_repos > 0
       /\ Len(all_repositories) = 3 * FullPage)
        => Len(listing_requests) < 4

\* C2 amended: the requests are for pages 1, 2, 3, ... in order, one per page;
\* every request but the last was answered with status 200 and a non-empty
\* page that left the cap unreached; facing three full pages and then an empty
\* page the loop yields the records of the three pages when the cap is 0 or at
\* least their number, with 3 requests when the cap is exactly their number
\* and otherwise with a 4th request, the one answered by the empty page.
C2_OneRequestPerPage ==
    /\ \A i \in 1..Len(listing_requests) : listing_requests[i] = i
    /\ \A i \in 1..(Len(listing_requests) - 1) :
           /\ ~PageResponse(listing, i).raises
           /\ PageResponse(listing, i).status_code = WORKING
           /\ PageResponse(listing, i).n > 0
           /\ ~(max_repos > 0 /\ RecordsBefore(listing, i + 1) >= max_repos)
    /\ (gar_pc = "loop" => Len(listing_requests) = page - 1)
    /\ (gar_pc # "loop" => Len(listing_requests) = page)
    /\ (gar_pc = "returned" /\ ThreeFullThenEmpty(listing)) =>
           /\ max_repos = 3 * FullPage =>
                  /\ Len(all_repositories) = 3 * FullPage
                  /\ listing_requests = <<1, 2, 3>>
           /\ (max_repos = 0 \/ max_repos > 3 * FullPage) =>
                  /\ Len(all_repositories) = 3 * FullPage
                  /\ listing_requests = <<1, 2, 3, 4>>

\* C2 witness: a positive cap above the three full pages, and the 4th request
C2_Witness ==
    /\ gar_pc = "returned" /\ ThreeFullThenEmpty(listing)
    /\ max_repos > 3 * FullPage
    /\ listing_requests = <<1, 2, 3, 4>>

----------------------------------------------------------------------------
(* Claims about the matchers, checked under SpecMatch *)

\* two characters that are the same letter, whatever their case
SameLetter(c, d) ==
    \/ c = d
    \/ {c, d} = {"a", "A"}
    \/ {c, d} = {"b", "B"}

\* case-insensitive substring containment, position by position
SubstringCI(needle, hay) ==
    \E off \in 0..(Len(hay) - Len(needle)) :
        \A j \in 1..Len(needle) : SameLetter(needle[j], hay[off + j])

\* the lengths of the prefixes of name that the first j characters of pat
\* match as a glob, case-insensitively
RECURSIVE GlobReach(_, _, _)
GlobReach(name, pat, j) ==
    IF j = 0 THEN {0}
    ELSE LET before == GlobReach(name, pat, j - 1)
         IN  IF pat[j] = "*"
             THEN {i \in 0..Len(name) : \E i0 \in before : i0 <= i}
             ELSE {i \in 1..Len(name) :
                      /\ (i - 1) \in before
                      /\ (pat[j] = "?" \/ SameLetter(pat[j], name[i]))}

\* case-insensitive glob match of the whole name
GlobCI(name, pat) == Len(name) \in GlobReach(name, pat, Len(pat))

\* a name matches a pattern: substring, equality or glob
MatchesSpec(name, pattern) ==
    SubstringCI(pattern, name) \/ name = pattern \/ GlobCI(name, pattern)

\* the file names that at least one pattern matches
MatchedByAny(names, patterns) ==
    {n \in Range(names) : \E i \in 1..Len(patterns) : MatchesSpec(n, patterns[i])}

\* some pattern matches no file name
SomePatternUnmatched(names, patterns) ==
    \E i \in 1..Len(patterns) :
        \A n \in Range(names) : ~MatchesSpec(n, patterns[i])

\* C8: matches_repo_pattern is true for every name when the fragment is empty
\* or exactly '*'; otherwise, for a fragment with '*' or '?', it is the
\* case-insensitive glob match of the whole name (never the literal substring
\* test); otherwise it is case-insensitive substring containment.
C8_ThreeTiers ==
    (fn = "matches_repo_pattern" /\ fn_pc = "done") =>
        IF fragment = <<>> \/ fragment = <<"*">> THEN fn_result = TRUE
        ELSE IF \E i \in 1..Len(fragment) : fragment[i] \in {"*", "?"}
             THEN fn_result = GlobCI(repo_name, fragment)
        ELSE fn_result = SubstringCI(fragment, repo_name)

\* C8 witness: a wildcard fragment that occurs literally in the name and
\* does not match it as a glob: the call answers false
C8_Witness ==
    /\ fn = "matches_repo_pattern" /\ fn_pc = "done"
    /\ fragment # <<"*">>
    /\ \E i \in 1..Len(fragment) : fragment[i] = "*"
    /\ SubstringCI(fragment, repo_name)
    /\ fn_result = FALSE

\* C9: with match_all, check_patterns_match returns the empty list whenever
\* some pattern matches no file name, and otherwise the union over the
\* patterns of the file names each matches.
C9_MatchAll ==
    (fn = "check_patterns_match" /\ fn_pc = "done" /\ match_all) =>
        IF SomePatternUnmatched(file_names, file_patterns)
        THEN fn_result = <<>>
        ELSE Range(fn_result) = MatchedByAny(file_names, file_patterns)

\* C9 witness: the first pattern matched a file, the second matched none, and
\* the call returned the empty list
C9_Witness ==
    /\ fn = "check_patterns_match" /\ fn_pc = "done" /\ match_all
    /\ Len(file_patterns) = 2
    /\ \E n \in Range(file_names) : MatchesSpec(n, file_patterns[1])
    /\ \A n \in Range(file_names) : ~MatchesSpec(n, file_patterns[2])
    /\ fn_result = <<>>

\* C10: without match_all, check_patterns_match returns exactly the file
\* names that at least one pattern matches, none of them twice; the result is
\* non-empty if and only if some pattern matches some file name.
C10_MatchAny ==
    (fn = "check_patterns_match" /\ fn_pc = "done" /\ ~match_all) =>
        /\ Range(fn_result) = MatchedByAny(file_names, file_patterns)
        /\ \A i, j \in 1..Len(fn_result) : i # j => fn_result[i] # fn_result[j]
        /\ (fn_result # <<>>) <=>
               (\E i \in 1..Len(file_patterns) : \E n \in Range(file_names) :
                    MatchesSpec(n, file_patterns[i]))

\* C10 witness: one pattern matches nothing, the other matches a name that
\* occurs twice among the file names, and the result holds that name once
C10_Witness ==
    /\ fn = "check_patterns_match" /\ fn_pc = "done" /\ ~match_all
    /\ SomePatternUnmatched(file_names, file_patterns)
    /\ Len(file_names) = 2 /\ file_names[1] = file_names[2]
    /\ fn_result = <<file_names[1]>>

----------------------------------------------------------------------------
(* Claims about the directory walks, checked under SpecWalk *)

\* every entry of every listing of a tree
TreeEntries(t) == UNION {Range(TreeListing(t, d)) : d \in Dirs(t)}

\* the depth of a path below the repository root: the root's listing is at
\* depth 0, the listing of a directory of the root at depth 1, and so on
PathDepth(path) ==
    IF path = <<>> THEN 0
    ELSE 1 + Cardinality({i \in 1..Len(path) : path[i] = "/"})

\* the depth of the listing an entry belongs to
ListingDepth(e) == PathDepth(e.path) - 1

\* path lies in the subtree of directory d: d's own listing or below
Under(path, d) ==
    \/ d = <<>>
    \/ /\ Len(path) > Len(d)
       /\ SubSeq(path, 1, Len(d) + 1) = d \o <<"/">>

\* every directory of the tree can be listed
FullyReadable == \A d \in Dirs(tree) : faults[d] = "ok"

\* the directories whose listing fails
FailedDirs == {d \in Dirs(tree) : faults[d] # "ok"}

NoDuplicates(s) == \A i, j \in 1..Len(s) : i # j => s[i] # s[j]

\* C5: on a fully readable tree the walk of _collect_files_recursive from
\* depth 0 emits exactly the files and directories of the listings at depth
\* 0..max_depth, each once, and lists exactly the directories at those depths:
\* a directory listed at depth max_depth is emitted and not expanded.
C5_ExactlyWithinDepth ==
    (walker = "collect" /\ walk_pc = "done" /\ FullyReadable) =>
        /\ Range(all_files) =
               {e \in TreeEntries(tree) :
                    e.type \in {"file", "dir"} /\ ListingDepth(e) <= max_depth}
        /\ NoDuplicates(all_files)
        /\ Range(walk_requests) =
               {d \in Dirs(tree) : PathDepth(d) <= max_depth}

\* C5 witness: the tree of depth 4 walked with max_depth 2: the directory
\* s/p/q, listed at depth 2, is emitted and is not itself listed
C5_Witness ==
    /\ walker = "collect" /\ walk_pc = "done" /\ FullyReadable
    /\ tree = "deep" /\ max_depth = 2
    /\ \E i \in 1..Len(all_files) :
           all_files[i].path = <<"s", "/", "p", "/", "q">>
    /\ <<"s", "/", "p", "/", "q">> \notin Range(walk_requests)

\* C6: no walk lists a directory more than max_depth levels below the
\* repository root, whichever walker performs it.
C6_DepthBounded ==
    (walk_pc = "done" /\ max_depth >= 0) =>
        \A i \in 1..Len(walk_requests) : PathDepth(walk_requests[i]) <= max_depth

\* C7: when the listing of exactly one directory (one below the root, which
\* has siblings) fails, the walk does not abort and its result lacks only the
\* entries of that directory's subtree.
C7_OnlySubtreeMissing ==
    (walk_pc = "done" /\ Cardinality(FailedDirs) = 1 /\ <<>> \notin FailedDirs) =>
        LET d == CHOOSE x \in FailedDirs : TRUE
        IN  /\ ~walk_raised
            /\ walker = "collect" =>
                   Range(all_files) =
                       {e \in TreeEntries(tree) :
                            /\ e.type \in {"file", "dir"}
                            /\ ListingDepth(e) <= max_depth
                            /\ ~Under(e.path, d)}
            /\ walker = "get_all" =>
                   Range(all_files) =
                       {e.path : e \in {x \in TreeEntries(tree) :
                                           x.type = "file" /\ ~Under(x.path, d)}}

----------------------------------------------------------------------------
(* Claims about a run of search_repositories_for_files, checked under Spec *)

\* a listing request of the run was answered by a raised error or by a
\* non-success status
ListingRequestFailed ==
    \E i \in 1..Len(listing_requests) :
        LET resp == PageResponse(listing, listing_requests[i])
        IN  resp.raises \/ resp.status_code # WORKING

\* C3: after a failed listing request the run never reaches name filtering
\* or content filtering, never returns SUCCESS, and ends with FAILURE.
C3_ListingFailureIsFatal ==
    ListingRequestFailed =>
        /\ outcome # "SUCCESS"
        /\ pc \notin {"content_filtering", "summary"}
        /\ pc = "done" => outcome = "FAILURE"

\* C4: once retrieval has returned, no failure of a directory listing ends
\* the run in FAILURE: the repository counts as holding no file and the loop
\* goes on to the next one.
C4_WalkErrorNotFatal ==
    gar_pc = "returned" => outcome # "FAILURE"

----------------------------------------------------------------------------
(* Claims about the loop of search_repositories_for_files, checked under Spec *)

\* the loop over matching_repos has started
LoopStarted == pc \in {"content_filtering", "summary", "done"}

\* the directory of the repository was listed: the loop processed it
Processed(repo) ==
    \E k \in 1..Len(dir_requests) : dir_requests[k][1] = repo

\* C12: with a positive max_matching_repos the run never holds more than
\* max_matching_repos matched repositories, and once it holds that many the
\* last repository whose directories were listed is the one matched last:
\* no repository after it is walked.
C12_MatchCapStopsLoop ==
    (LoopStarted /\ max_matching_repos > 0) =>
        /\ Len(found_repositories) <= max_matching_repos
        /\ Len(found_repositories) = max_matching_repos =>
               /\ dir_requests # <<>>
               /\ dir_requests[Len(dir_requests)][1] =
                      found_repositories[Len(found_repositories)].repo

\* the cap stopped a finished run while repositories were left unprocessed
C12_Witness ==
    /\ pc = "done"
    /\ outcome = "SUCCESS"
    /\ max_matching_repos = 2
    /\ Len(found_repositories) = 2
    /\ repo_i < Len(matching_repos)

\* what the pattern matcher may return for the files of a repository
MatcherResults(repo) ==
    check_patterns_match(
        get_all_files_recursive(RepoTree(repo), RepoFaults(fault, repo), <<>>).all_files,
        file_patterns, match_all)

\* the retrieved repositories, in retrieval order, that pass the name
\* matcher, were processed, and for which the pattern matcher returned a
\* non-empty list
ExpectedRepos ==
    SelectSeq(all_repositories,
              LAMBDA repo :
                  /\ matches_repo_pattern(RepoName(naming, repo), fragment)
                  /\ Processed(repo)
                  /\ <<>> \notin MatcherResults(repo))

\* C13: the result list holds exactly the retrieved repositories that pass
\* the name matcher, were processed before the loop stopped and got a
\* non-empty list from the pattern matcher, in retrieval order, each with the
\* list the pattern matcher returned.
C13_ResultSet ==
    (LoopStarted /\ outcome # "FAILURE") =>
        /\ Len(found_repositories) = Len(ExpectedRepos)
        /\ \A k \in 1..Len(found_repositories) :
               /\ found_repositories[k].repo = ExpectedRepos[k]
               /\ found_repositories[k].matched_files
                      \in MatcherResults(found_repositories[k].repo)

\* a finished run in which the name matcher dropped a repository, the
\* pattern matcher dropped another and a third is in the result
C13_Witness ==
    /\ pc = "done"
    /\ outcome = "SUCCESS"
    /\ found_repositories # <<>>
    /\ Len(found_repositories) < Len(matching_repos)
    /\ Len(matching_repos) < Len(all_repositories)

----------------------------------------------------------------------------
(* Claims about _build_search_query, checked under SpecDoc *)

\* the tokens of a string, separated by single spaces
RECURSIVE Split(_, _, _)
Split(q, k, token) ==
    IF k > Len(q) THEN <<token>>
    ELSE IF q[k] = " " THEN <<token>> \o Split(q, k + 1, <<>>)
    ELSE Split(q, k + 1, Append(token, q[k]))

\* a criterion is present: a non-empty string, a number (0 included), a
\* non-empty list
PresentString(o) == o # None /\ Len(o[1]) > 0
PresentNumber(o) == o # None
PresentList(o) == o # None /\ Len(o[1]) > 0

NoCriterion ==
    /\ ~PresentString(args.language)
    /\ ~PresentNumber(args.stars)
    /\ ~PresentNumber(args.forks)
    /\ ~PresentString(args.created_after)
    /\ ~PresentString(args.updated_after)
    /\ ~PresentList(args.topics)

\* the tokens of the present criteria, in the fixed order
ExpectedTokens ==
    (IF PresentString(args.language)
     THEN << <<"language:">> \o args.language[1] >> ELSE <<>>)
    \o (IF PresentNumber(args.stars)
        THEN << <<"stars:>=">> \o Str(args.stars[1]) >> ELSE <<>>)
    \o (IF PresentNumber(args.forks)
        THEN << <<"forks:>=">> \o Str(args.forks[1]) >> ELSE <<>>)
    \o (IF PresentString(args.created_after)
        THEN << <<"created:>=">> \o args.created_after[1] >> ELSE <<>>)
    \o (IF PresentString(args.updated_after)
        THEN << <<"pushed:>=">> \o args.updated_after[1] >> ELSE <<>>)
    \o (IF PresentList(args.topics)
        THEN [k \in 1..Len(args.topics[1]) |-> <<"topic:">> \o args.topics[1][k]]
        ELSE <<>>)

\* C11: the query holds one token per present criterion, separated by single
\* spaces, in the order language, stars, forks, created, pushed, topics in
\* input order; 0 stars or forks are present, empty strings and an empty
\* topic list are absent; the query is "is:public" exactly when no criterion
\* is present, and it is never empty.
C11_QueryTokens ==
    (doc_fn = "_build_search_query" /\ doc_pc = "done") =>
        /\ search_query # <<>>
        /\ NoCriterion <=> search_query = <<"is:public">>
        /\ ~NoCriterion => Split(search_query, 1, <<>>) = ExpectedTokens

\* a query built from 0 stars, an empty language and two topics
C11_Witness ==
    /\ doc_fn = "_build_search_query"
    /\ doc_pc = "done"
    /\ args.language = Some(<<>>)
    /\ args.stars = Some(0)
    /\ args.forks = Some(12)
    /\ args.topics = Some(<< <<"c", "i">>, <<"w">> >>)
    /\ search_query = <<"stars:>=", "0", " ", "forks:>=", "1", "2", " ",
                        "topic:", "c", "i", " ", "topic:", "w">>

----------------------------------------------------------------------------
(* Claims about saving and loading, checked under SpecDoc *)

\* the values a dict holds for a key
Lookup(d, key) == {d[k][2] : k \in {j \in 1..Len(d) : d[j][1] = key}}

\* the dict of a typed value, empty when the value is no dict
AsDict(value) == IF value[1] = "dict" THEN value[2] ELSE <<>>

\* the `reporover` container, the configuration object and the records array
\* of the document in the file
StoredContainer ==
    IF disk.kind = "json"
    THEN UNION {{AsDict(c)} : c \in Lookup(AsDict(disk.content), "reporover")}
    ELSE {}
StoredConfiguration ==
    UNION {{AsDict(c) : c \in Lookup(r, "configuration")} : r \in StoredContainer}
StoredRecords ==
    UNION {{c[2] : c \in {l \in Lookup(r, "repos") : l[1] = "list"}} :
              r \in StoredContainer}

\* the field of the configuration the caller saved, as a typed value
OriginalField(f) ==
    CASE f = "language" -> OptStr(args.language)
      [] f = "stars" -> OptInt(args.stars)
      [] f = "forks" -> OptInt(args.forks)
      [] f = "created_after" -> OptStr(args.created_after)
      [] f = "updated_after" -> OptStr(args.updated_after)
      [] f = "files" -> OptStrList(args.files)
      [] f = "topics" -> OptStrList(args.topics)
      [] f = "max_depth" -> OptInt(args.max_depth)
      [] f = "max_filter" -> OptInt(args.max_filter)
      [] f = "max_display" -> OptInt(args.max_display)
      [] f = "search_query" -> PyStr(search_query)

OptionalConfigurationFields ==
    {"language", "stars", "forks", "created_after", "updated_after", "files",
     "topics", "max_depth", "max_filter", "max_display"}

RoundTripFields == OptionalConfigurationFields \cup {"search_query"}

MalformedFile ==
    \/ disk.kind \in {"missing", "invalid"}
    \/ disk.content = <<"dict", <<>>>>
    \/ StoredContainer = {}
    \/ StoredConfiguration = {}
    \/ \A r \in StoredContainer :
           Lookup(r, "repos") \cup Lookup(r, "repositories") = {}
    \/ \A c \in StoredConfiguration :
           \A q \in Lookup(c, "search_query") : q[1] # "str"

\* the loaded data cannot yield a configuration: it is missing, null, not an
\* object, empty, or lacks the required search_query string
MalformedConfiguration(data) ==
    \/ Lookup(data.reporover, "configuration") = {}
    \/ \A c \in Lookup(data.reporover, "configuration") :
           \/ c[1] # "dict"
           \/ c[2] = <<>>
           \/ \A q \in Lookup(c[2], "search_query") : q[1] # "str"

\* C15: a load of a malformed file returns None and every object a load
\* returns holds a configuration with its required field and the records;
\* an extraction from data with a malformed configuration returns None and
\* every configuration it returns holds the required field.
C15_LoadNeverPartial ==
    /\ (doc_pc \in {"loaded", "done"} /\ doc_fn # "extract_configuration_from_data") =>
           /\ MalformedFile => loaded_data = None
           /\ loaded_data # None =>
                  /\ ~MalformedConfiguration(loaded_data[1])
                  /\ Lookup(loaded_data[1].reporover, "repos")
                         \cup Lookup(loaded_data[1].reporover, "repositories") # {}
    /\ (doc_pc = "done" /\ loaded_data # None) =>
           /\ MalformedConfiguration(loaded_data[1]) => extracted_config = None
           /\ extracted_config # None =>
                  \E q \in Lookup(extracted_config[1], "search_query") : q[1] = "str"

\* a load that returned None for a document whose configuration lacks the
\* required field
C15_Witness ==
    /\ doc_fn = "load_results_from_json"
    /\ doc_pc = "loaded"
    /\ disk.kind = "json"
    /\ StoredConfiguration = {<< <<"language", <<"str", <<"p", "y">>>>>> >>}
    /\ \E r \in StoredContainer : Lookup(r, "repositories") # {}
    /\ loaded_data = None

\* which of a record's optional fields are set
RecordFieldSet(k, f) ==
    CASE f = "description" -> Repository(repos_list[k]).description[1] # "null"
      [] f = "language" -> Repository(repos_list[k]).language[1] # "null"
      [] f = "files" -> args.files # None /\ args.files[1] # <<>>

\* C16: in the document a save wrote, an optional field that is not set has
\* no key, in the configuration and in each record, no key holds null, and
\* the required keys are there: search_query in the configuration, and
\* name, url, stars, forks, created_at, updated_at in each record.
C16_UnsetFieldsOmitted ==
    (doc_fn = "_save_results_to_json" /\ disk.kind = "json") =>
        /\ StoredConfiguration # {}
        /\ \A c \in StoredConfiguration :
               /\ \A f \in OptionalConfigurationFields :
                      OriginalField(f)[1] = "null" => Lookup(c, f) = {}
               /\ \A k \in 1..Len(c) : c[k][2][1] # "null"
               /\ Lookup(c, "search_query") # {}
        /\ StoredRecords # {}
        /\ \A records \in StoredRecords :
               \A k \in 1..Len(records) :
                   /\ k <= Len(repos_list)
                   /\ \A f \in {"description", "language", "files"} :
                          ~RecordFieldSet(k, f) => Lookup(AsDict(records[k]), f) = {}
                   /\ \A j \in 1..Len(AsDict(records[k])) :
                          AsDict(records[k])[j][2][1] # "null"
                   /\ \A f \in {"name", "url", "stars", "forks", "created_at",
                                "updated_at"} :
                          Lookup(AsDict(records[k]), f) # {}

\* a document saved with unset criteria and a record without description
C16_Witness ==
    /\ doc_fn = "_save_results_to_json"
    /\ disk.kind = "json"
    /\ args.stars = None
    /\ args.files = None
    /\ args.max_depth = None
    /\ repos_list = << <<2, 2>>, <<1, 1>> >>
    /\ \E records \in StoredRecords : Len(records) = 2

\* C17: the configuration object of a saved document holds the criteria
\* that are set, the caps that are set, the search query as passed and a
\* timestamp string, and the records array holds one entry per saved
\* repository, in order.
C17_DocumentShape ==
    (doc_fn = "_save_results_to_json" /\ disk.kind = "json") =>
        /\ StoredConfiguration # {}
        /\ \A c \in StoredConfiguration :
               /\ \A f \in RoundTripFields :
                      OriginalField(f)[1] # "null" => Lookup(c, f) = {OriginalField(f)}
               /\ \E t \in Lookup(c, "timestamp") : t[1] = "str"
        /\ StoredRecords # {}
        /\ \A records \in StoredRecords :
               /\ Len(records) = Len(repos_list)
               /\ \A k \in 1..Len(records) :
                      Lookup(AsDict(records[k]), "name")
                          = {Repository(repos_list[k]).name}

----------------------------------------------------------------------------
(* Claims about search_repositories, checked under SpecDiscover *)

\* the call asked for the file filter
FilterRequested == args.files # None /\ Len(args.files[1]) > 0

\* what the presenter of the call is given, and the total it is told of
PresenterInput ==
    IF FilterRequested THEN filtered_repositories ELSE paginated_list.items
PresenterTotal ==
    IF FilterRequested THEN Len(filtered_repositories)
    ELSE paginated_list.totalCount

\* the cap in force during the call
DisplayCap == IF args.max_display = None THEN MAX_DISPLAY ELSE args.max_display[1]

\* `front` is the beginning of `whole`, in order
IsFrontOf(front, whole) ==
    /\ Len(front) <= Len(whole)
    /\ \A k \in 1..Len(front) : front[k] = whole[k]

\* the truncation indicator is among the lines printed
IndicatorEmitted == \E k \in 1..Len(console) : console[k][1] = "Showing first"

\* C18: both presenters add at most displayCap rows, taken from the front of
\* their input in input order, and print the "Showing first" indicator if and
\* only if the total count is greater than displayCap, not when it is equal.
C18_RowsAndIndicator ==
    /\ IsFrontOf(table, PresenterInput)
    /\ Len(table) <= (IF DisplayCap > 0 THEN DisplayCap ELSE 0)
    /\ presented =>
           /\ Len(table) = DisplayCap \/ Len(table) = Len(PresenterInput)
           /\ IndicatorEmitted <=> PresenterTotal > DisplayCap
    /\ ~presented => ~IndicatorEmitted

\* a presenter that filled the table to the cap with a total equal to the cap
C18_Witness ==
    /\ presented
    /\ DisplayCap = 2
    /\ PresenterTotal = 2
    /\ Len(table) = 2
    /\ ~IndicatorEmitted

\* the call asked for the results to be saved
SaveFileRequested == args.save_file # None /\ Len(args.save_file[1]) > 0

\* C19: search_repositories always ends by returning SUCCESS or FAILURE:
\* FAILURE when the provider raised a GitHub API error or any other exception
\* or when a requested save failed, SUCCESS in every other case, a search
\* with zero repositories included.
C19_StatusOutcome ==
    /\ d_pc \in {"call", "searching", "filtering", "displaying", "saving",
                 "returned"}
    /\ d_pc # "returned" => status = "none"
    /\ raised # "none" => d_pc = "returned"
    /\ d_pc = "returned" =>
           /\ status \in {"SUCCESS", "FAILURE"}
           /\ status = "FAILURE" <=>
                  \/ raised \in {"github", "other"}
                  \/ SaveFileRequested /\ presented /\ ~save_result
    /\ (d_pc = "returned" /\ paginated_list = NoRepositories /\ writable) =>
           status = "SUCCESS"

\* a call that returned FAILURE because the requested save failed
C19_Witness ==
    /\ d_pc = "returned"
    /\ status = "FAILURE"
    /\ raised = "none"
    /\ presented
    /\ SaveFileRequested
    /\ ~save_result

\* C20: in a call of search_repositories the result file is written at most
\* once, only when a save file was requested and only after retrieval, the
\* file filter and the presentation have completed; a call that fails before
\* writes nothing, and nothing is written while the filter runs.
C20_WrittenOnceAtEnd ==
    /\ [](/\ Len(written) <= 1
          /\ written # <<>> =>
                 /\ SaveFileRequested
                 /\ presented
                 /\ d_pc = "returned"
                 /\ raised = "none"
                 /\ FilterRequested =>
                        \/ repo_count = Len(paginated_list.items)
                        \/ repo_count >= MAX_FILTER
          /\ d_pc \in {"searching", "filtering", "displaying"} =>
                 written = <<>>
          /\ raised # "none" => written = <<>>)
    /\ [][(disk' # disk \/ written' # written) =>
              \/ d_pc = "saving" /\ d_pc' = "returned" /\ presented
              \/ d_pc' = "searching" /\ disk' = disk /\ written' = <<>>]_vars

\* a call that filtered, presented and then wrote its file
C20_Witness ==
    /\ d_pc = "returned"
    /\ FilterRequested
    /\ repo_count >= 2
    /\ filtered_repositories # <<>>
    /\ Len(written) = 1
    /\ disk.kind = "json"

----------------------------------------------------------------------------
(* Claims about commit_files_to_repo, checked under SpecCommit *)

\* the position of a character in the base64 alphabet, counted from 0
B64Index(c) == CHOOSE i \in 0..63 : B64Alphabet[i + 1] = c

\* the bytes that a base64 text stands for
RECURSIVE B64Decode(_)
B64Decode(text) ==
    IF Len(text) < 4 THEN <<>>
    ELSE LET v(k) == IF text[k] = "=" THEN 0 ELSE B64Index(text[k])
             n == v(1) * 262144 + v(2) * 4096 + v(3) * 64 + v(4)
             group == <<n \div 65536, (n \div 256) % 256, n % 256>>
             kept == IF text[3] = "=" THEN 1 ELSE IF text[4] = "=" THEN 2 ELSE 3
         IN  SubSeq(group, 1, kept) \o B64Decode(SubSeq(text, 5, Len(text)))

\* the destination of the file at position k: the directory, then the name
ExpectedDestination(k) ==
    LET file_path == commit_files[k]
        name == file_path[Len(file_path)]
    IN  IF destination_directory = <<>> THEN <<name>>
        ELSE destination_directory \o <<"/", name>>

\* the requests at positions 2k-1 and 2k are the GET and the PUT of file k
RequestsOfFile(k) ==
    LET get == http_requests[2 * k - 1]
        put == http_requests[2 * k]
    IN  /\ get.method = "GET"
        /\ put.method = "PUT"
        /\ get.path = ExpectedDestination(k)
        /\ put.path = ExpectedDestination(k)
        /\ Lookup(put.json, "sha") =
               (IF get_responses[k].status_code = 200
                THEN {get_responses[k].sha} ELSE {})
        /\ Lookup(put.json, "message") = {commit_message}
        /\ Lookup(put.json, "branch") = {<<"main">>}
        /\ \E content \in Lookup(put.json, "content") :
               B64Decode(content) = file_contents[commit_files[k]].bytes

\* C21: for each file, in the given order, commit_files_to_repo issues exactly
\* one GET and then exactly one PUT to the same destination path; the PUT body
\* carries the sha of the GET if and only if the GET returned 200, and always
\* the commit message, the base64 encoding of the content and branch "main".
C21_GetThenPutPerFile ==
    commit_pc = "returned" =>
        /\ Len(http_requests) = 2 * Len(commit_files)
        /\ \A k \in 1..Len(commit_files) : RequestsOfFile(k)

\* the reports of a failed PUT
FailedCommitReports ==
    {k \in 1..Len(reports) : reports[k][1] = "Failed to commit"}

\* the files whose PUT the provider refuses
RefusedFiles ==
    {k \in 1..Len(commit_files) : put_responses[k].status_code \notin {200, 201}}

\* C22: when the PUT of a file fails, commit_files_to_repo reports the failure
\* with the status code and the provider's body and still attempts every
\* remaining file: N refused files give N failure reports, one per file.
C22_EveryFailureReported ==
    (/\ commit_pc = "returned"
     /\ \A k \in 1..Len(commit_files) : file_contents[commit_files[k]].readable) =>
        /\ Cardinality(FailedCommitReports) = Cardinality(RefusedFiles)
        /\ \A k \in FailedCommitReports :
               /\ k < Len(reports)
               /\ reports[k + 1][1] = "print_json_string"
        /\ Cardinality({k \in 1..Len(http_requests) :
                            http_requests[k].method = "PUT"}) = Len(commit_files)

----------------------------------------------------------------------------
(* Claims about the file filter of search_repositories, checked under      *)
(* SpecDiscover                                                            *)

\* the names the call requires
RequiredNames == IF FilterRequested THEN Range(args.files[1]) ELSE {}

\* every directory of a repository's tree answers its listing
Readable(rec) == fault.kind = "ok" \/ fault.rec # rec

\* the listing of a directory of a repository's tree is asked for and fails
WalkFails(rec) ==
    /\ ~Readable(rec)
    /\ fault.dir \in Dirs(RepoTree(rec))
    /\ PathDepth(fault.dir) <= max_depth

\* the entries of the given kinds in the listings at depth 0..max_depth of a
\* repository's tree, without the subtree of a directory that fails
EntriesWithinDepth(rec, kinds) ==
    {e \in TreeEntries(RepoTree(rec)) :
        /\ e.type \in kinds
        /\ ListingDepth(e) <= max_depth
        /\ Readable(rec) \/ ~Under(e.path, fault.dir)}

\* every required name is the name of an entry of one of the kinds
AllNamesAmong(rec, kinds) ==
    \A n \in RequiredNames : \E e \in EntriesWithinDepth(rec, kinds) : e.name = n

\* a repository the filter has examined was kept
Kept(rec) == rec \in Range(filtered_repositories)

\* C23 as stated: only entries of kind file satisfy a required name, so a
\* repository is kept only if every required name is the name of a file.
C23_OnlyFilesCount ==
    \A k \in 1..Len(walked) :
        Kept(walked[k]) => AllNamesAmong(walked[k], {"file"})

\* C23, amended: directory entries are kept in the listing and count as
\* matches like file entries: a repository is kept only if every required
\* name is the name of a file or of a directory found within max_depth, and
\* a readable repository in which every required name (each given once) is
\* such a name is kept, also when the only entry of that name is a directory.
C23_DirectoriesCount ==
    \A k \in 1..Len(walked) :
        /\ Kept(walked[k]) => AllNamesAmong(walked[k], {"file", "dir"})
        /\ (/\ Readable(walked[k])
            /\ NoDuplicates(args.files[1])
            /\ AllNamesAmong(walked[k], {"file", "dir"})) => Kept(walked[k])

\* a repository kept for the name of its directory "s", which no file bears
C23_Witness ==
    /\ FilterRequested
    /\ args.files[1] = << <<"s">> >>
    /\ \E k \in 1..Len(walked) :
           /\ Kept(walked[k])
           /\ ~AllNamesAmong(walked[k], {"file"})
           /\ \E e \in EntriesWithinDepth(walked[k], {"dir"}) : e.name = <<"s">>

\* `part` holds elements of `whole`, each once and in the order of `whole`
IsSubsequenceOf(part, whole) ==
    \E pos \in [1..Len(part) -> 1..Len(whole)] :
        /\ \A k \in 1..Len(part) : whole[pos[k]] = part[k]
        /\ \A j, k \in 1..Len(part) : j < k => pos[j] < pos[k]

\* the file filter of the call has returned
FilterReturned ==
    FilterRequested /\ d_pc \in {"displaying", "saving", "returned"} /\ raised = "none"

\* C24: the file filter walks at most max_filter repositories, the first
\* max_filter in provider order, and every repository it keeps is one of
\* those it examined, in provider order.
C24_FilterCap ==
    /\ max_filter >= 0 => Len(walked) <= max_filter
    /\ IsFrontOf(walked, paginated_list.items)
    /\ IsSubsequenceOf(filtered_repositories, walked)
    /\ (FilterReturned /\ max_filter >= 0) =>
           \/ Len(walked) = max_filter
           \/ Len(walked) = Len(paginated_list.items)

\* a filter that stopped at the cap with repositories left unexamined
C24_Witness ==
    /\ FilterReturned
    /\ max_filter = 1
    /\ Len(walked) = 1
    /\ Len(paginated_list.items) = 3
    /\ filtered_repositories = walked

\* C25: _repository_contains_files returns true if and only if every name in
\* required_files is the name of an entry found within max_depth, also when a
\* name occurs more than once in the list, and an error while walking gives
\* false.
C25_ContainsAllNames ==
    \A k \in 1..Len(walked) :
        Kept(walked[k]) <=>
            /\ ~WalkFails(walked[k])
            /\ AllNamesAmong(walked[k], {"file", "dir"})

----------------------------------------------------------------------------
(* Further claims about a run of search_repositories_for_files, checked    *)
(* under Spec                                                              *)

\* the name of a retrieved repository passes the name filter, stated by the
\* three tiers of the filter
NamePasses(repo) ==
    LET name == RepoName(naming, repo)
    IN  IF fragment = <<>> \/ fragment = <<"*">> THEN TRUE
        ELSE IF \E i \in 1..Len(fragment) : fragment[i] \in {"*", "?"}
             THEN GlobCI(name, fragment)
        ELSE SubstringCI(fragment, name)

\* C26: search_repositories_for_files issues directory-listing requests only
\* after retrieval has finished and only for repositories whose name passes
\* the name filter, which are all the retrieved ones when the fragment is
\* empty or "*"; when no retrieved repository passes, it returns SUCCESS
\* without any directory-listing request.
C26_ListingsAfterNameFilter ==
    /\ [](/\ pc = "retrieving" => dir_requests = <<>>
          /\ \A k \in 1..Len(dir_requests) :
                 /\ dir_requests[k][1] \in Range(all_repositories)
                 /\ NamePasses(dir_requests[k][1])
          /\ (fragment \in {<<>>, <<"*">>} /\ pc \in {"content_filtering", "summary"}) =>
                 matching_repos = all_repositories
          /\ (/\ pc \notin {"idle", "retrieving"}
              /\ gar_pc = "returned"
              /\ \A k \in 1..Len(all_repositories) : ~NamePasses(all_repositories[k])) =>
                 /\ pc = "done"
                 /\ outcome = "SUCCESS"
                 /\ dir_requests = <<>>)
    /\ [][/\ dir_requests' # dir_requests =>
                 /\ gar_pc = "returned"
                 /\ pc = "content_filtering"
                 /\ listing_requests' = listing_requests
          /\ listing_requests' # listing_requests => dir_requests = <<>>]_vars

\* a run that retrieved repositories, kept none by name and returned SUCCESS
\* without a directory-listing request
C26_Witness ==
    /\ pc = "done"
    /\ outcome = "SUCCESS"
    /\ all_repositories # <<>>
    /\ matching_repos = <<>>
    /\ dir_requests = <<>>
    /\ fragment = <<"c">>

----------------------------------------------------------------------------
(* A further claim about the walk of _collect_files_recursive, checked     *)
(* under SpecWalk                                                          *)

\* the entry guard was true in a call of the walk
GuardedCalls == {k \in 1..Len(walk_calls) : walk_calls[k][2] > max_depth}

\* C27 as stated: in a walk that starts at depth 0 the entry guard
\* current_depth > max_depth is never true in any call, for every max_depth
\* the caller passes: current_depth <= max_depth holds at the start of every
\* call.
C27_GuardNeverTrue ==
    (walker = "collect" /\ walk_pc = "done") => GuardedCalls = {}

\* C27, amended: in a walk that starts at depth 0 with max_depth >= 0 the
\* entry guard is never true in any call and current_depth <= max_depth holds
\* at the start of every call; with a negative max_depth the guard is true in
\* the first call, at depth 0, which returns without listing any directory.
C27_GuardOnlyForNegativeDepth ==
    (walker = "collect" /\ walk_pc = "done") =>
        /\ walk_calls # <<>>
        /\ walk_calls[1] = << <<>>, 0 >>
        /\ max_depth >= 0 =>
               /\ GuardedCalls = {}
               /\ Len(walk_calls) = Len(walk_requests)
        /\ max_depth < 0 =>
               /\ Len(walk_calls) = 1
               /\ GuardedCalls = {1}
               /\ walk_requests = <<>>
               /\ all_files = <<>>

\* a walk with max_depth -1: its only call returns at the entry guard
C27_Witness ==
    /\ walker = "collect" /\ walk_pc = "done"
    /\ max_depth = -1
    /\ tree = "deep"
    /\ GuardedCalls = {1}
    /\ walk_requests = <<>>

----------------------------------------------------------------------------
(* A claim about the termination of get_all_repositories, checked under    *)
(* SpecGarFair                                                             *)

\* the request for page p was answered with status 200 and no record, or
\* with a non-success status
EndsListing(p) ==
    LET resp == IF p <= Len(listing) THEN listing[p]
                ELSE [raises |-> FALSE, status_code |-> 200, n |-> 0]
    IN  ~resp.raises /\ (resp.status_code # 200 \/ resp.n = 0)

\* C28: with a positive max_repos get_all_repositories terminates for every
\* provider: every iteration that does not stop the loop adds at least one
\* record, so at most max_repos listing requests are issued; for any cap it
\* terminates as soon as a page comes back empty or with a non-success status.
C28_Terminates ==
    /\ [](/\ max_repos > 0 => Len(listing_requests) <= max_repos
          /\ gar_pc = "loop" => Len(all_repositories) >= Len(listing_requests)
          /\ (max_repos > 0 /\ gar_pc = "loop") =>
                 Len(all_repositories) < max_repos
          /\ \A k \in 1..Len(listing_requests) :
                 EndsListing(listing_requests[k]) =>
                     /\ k = Len(listing_requests)
                     /\ gar_pc = "returned")
    /\ <>(gar_pc \in {"returned", "raised"})

\* a call with cap 3 that ended with its third request, each page having
\* brought one record
C28_Witness ==
    /\ gar_pc = "returned"
    /\ max_repos = 3
    /\ Len(listing_requests) = 3
    /\ Len(all_repositories) = 3

------------------------------------------------------------

----------------------------------------------------------------------------
(* A claim about the end of a run of search_repositories_for_files,        *)
(* checked under Spec                                                      *)

\* the steps a run has left at most: the phases ahead, the pages that may
\* still be requested and the repositories that may still be walked
StepsLeft ==
    CASE pc = "retrieving" ->
             3 + Len(listing) * MaxPageLen
             + (IF gar_pc = "loop" THEN Len(listing) + 2 - page ELSE 0)
      [] pc = "content_filtering" -> 2 + Len(matching_repos) - repo_i
      [] pc = "summary" -> 1
      [] OTHER -> 0

\* the run is at a point where the code has a next step to take
HasNextStep ==
    CASE pc = "retrieving" -> gar_pc \in {"loop", "returned", "raised"}
      [] pc = "content_filtering" -> repo_i \in 1..Len(matching_repos)
      [] pc = "summary" -> TRUE
      [] OTHER -> FALSE

\* C29: every run of search_repositories_for_files reaches a terminal
\* outcome, SUCCESS or FAILURE, and never raises, each request being
\* answered and each tree being finite: a run that has not ended has a next
\* step and every step leaves fewer steps; FAILURE is reached only from
\* retrieval or from content filtering.
C29_RunEnds ==
    /\ [](/\ pc = "done" <=> outcome \in {"SUCCESS", "FAILURE"}
          /\ outcome \in {"none", "SUCCESS", "FAILURE"}
          /\ pc # "done" => HasNextStep
          /\ StepsLeft >= 0
          /\ (outcome = "FAILURE" /\ dir_requests = <<>>) => gar_pc = "raised"
          /\ (outcome = "FAILURE" /\ dir_requests # <<>>) =>
                 /\ gar_pc = "returned"
                 /\ matching_repos # <<>>)
    /\ [][/\ StepsLeft' < StepsLeft
          /\ outcome' # outcome =>
                 /\ outcome = "none"
                 /\ pc' = "done"
                 /\ outcome' = "FAILURE" =>
                        pc \in {"retrieving", "content_filtering"}]_vars

\* a run with positive caps that ended in FAILURE during content filtering,
\* after a first repository had been walked
C29_Witness ==
    /\ pc = "done"
    /\ outcome = "FAILURE"
    /\ max_repos > 0
    /\ max_matching_repos > 0
    /\ gar_pc = "returned"
    /\ repo_i > 1

----------------------------------------------------------------------------
(* A claim about the caps of successive calls of search_repositories,      *)
(* checked under SpecDiscover                                              *)

\* a call is in progress or has returned
CallEntered == d_pc \in {"searching", "filtering", "displaying", "saving", "returned"}

\* the cap a call's argument asks for, where the built-in default is known:
\* the argument when it is given, Numbers.MAX_FILTER.value for max_filter
ArgumentFilterCap ==
    IF args.max_filter = None THEN MAX_FILTER_VALUE ELSE args.max_filter[1]

\* the caps recorded in the configuration that the call saves
RecordedCap(name) == Lookup(configuration_data, name)

\* the caps recorded are the caps the filter and the presenter apply
RecordedCapsApplied ==
    /\ RecordedCap("max_depth") = {PyInt(max_depth)}
    /\ RecordedCap("max_filter") = {PyInt(MAX_FILTER)}
    /\ RecordedCap("max_display") = {PyInt(MAX_DISPLAY)}

\* C30: in any sequence of calls of search_repositories in one process the
\* caps in effect during a call are determined by that call's arguments
\* alone: a call that passes None for a cap runs with the built-in default,
\* whatever caps earlier calls used, and the caps recorded in the saved
\* configuration are the caps applied.
C30_CapsFromArguments ==
    CallEntered =>
        /\ MAX_FILTER = ArgumentFilterCap
        /\ max_filter = ArgumentFilterCap
        /\ args.max_depth # None => max_depth = args.max_depth[1]
        /\ args.max_display # None => MAX_DISPLAY = args.max_display[1]
        /\ RecordedCapsApplied

====
